---- MODULE Spec2Model ----
(***************************************************************************)
(* Model of knowledgeGPT: the vector index manager                         *)
(* (src/src/vectorstores/faiss_store.py, class FAISSVectorStore), the      *)
(* document registry (src/src/loaders/document_loader.py), the document    *)
(* operations of the chain (src/src/chains/faiss_conversational_chain.py), *)
(* the long-term memory and the hooks of the agent                         *)
(* (src/src/memory/long_term_memory.py), one turn of the agent             *)
(* (src/app/web_chatbot.py) and the sessions of the chain.                 *)
(*                                                                         *)
(* Each component has a specification of its own; a specification keeps    *)
(* the variables of the other components at their idle values.             *)
(*                                                                         *)
(* Strings whose prefix matters (file names, vector ids) are sequences of  *)
(* one-character strings, so that str.startswith is computed.              *)
(***************************************************************************)
EXTENDS Integers, Sequences, FiniteSets, TLC

\* the index manager: the store in memory, the index directory, the record
\* of the last call
VARIABLES vector_store, disk, last
\* the document registry: the record file, the files of the documents
\* directory, the record of the last call, and the names whose ingestion
\* completed and was not undone since
VARIABLES record, documents_dir, reg_last, ingested
\* concurrent callers: the position of each thread in its call and the
\* values the call holds
VARIABLES pc, local
\* the long-term memory: the collection, and how often each (role,
\* content) pair was stored
VARIABLES chroma_store, persisted
\* one turn of the agent: the messages the checkpointer holds for the
\* thread, the state handed to the hooks, runtime.kwargs["system"], and
\* the position of the turn with what it has done so far
VARIABLES checkpoint, agent_state, runtime_kwargs, turn
\* the sessions: the module's _sessions, the files of
\* Config.SHORT_TERM_MEMORY, and the record of the last call
VARIABLES _sessions, short_term_memory, sess_last
\* the retrieval tool of the session: its slot last_docs, and what the
\* last turn showed
VARIABLES last_docs, shown

idxVars == <<vector_store, disk, last>>
regVars == <<record, documents_dir, reg_last, ingested>>
conVars == <<pc, local>>
ltmVars == <<chroma_store, persisted>>
turnVars == <<checkpoint, agent_state, runtime_kwargs, turn>>
sessVars == <<_sessions, short_term_memory, sess_last>>
toolVars == <<last_docs, shown>>
agentVars == <<turnVars, sessVars, toolVars>>

vars == <<vector_store, disk, last, record, documents_dir, reg_last, ingested,
          pc, local, chroma_store, persisted, checkpoint, agent_state,
          runtime_kwargs, turn, _sessions, short_term_memory, sess_last,
          last_docs, shown>>

(***************************** bounds **************************************)
\* most vectors the in-memory index is allowed to grow to
MaxVectors == 3
\* most chunks handed to one add_documents call
MaxChunks == MaxVectors - 1

(************************* program constants *******************************)
\* Config.TOP_K, the default k of search (src.config is not part of src/)
TOP_K == 3

\* the text of the sentinel entry (the literal of from_texts)
InitText == "init_doc"

\* the optional argument ids of add_documents: None, or a list
None == [given |-> FALSE, list |-> <<>>]
Given(list) == [given |-> TRUE, list |-> list]

(**************************** input sets ***********************************)
\* file names: "a", "a_b" (a name that begins with "a_") and "" (a chunk
\* whose metadata has no file_name, metadata.get("file_name", "") == "")
FileA == <<"a">>
FileAB == <<"a", "_", "b">>
NoFile == <<>>
FileNames == {FileA, FileAB, NoFile}

Contents == {"c1", "c2"}

\* chunks (langchain Document: page_content and metadata["file_name"])
Docs == {[page_content |-> "c1", file_name |-> FileA],
         [page_content |-> "c2", file_name |-> FileAB],
         [page_content |-> "c1", file_name |-> NoFile]}

SentinelDoc == [page_content |-> InitText, file_name |-> NoFile]

\* ids a caller passes explicitly
CallerIds == {<<"a", "_", "x">>}

\* the chunk a caller passes with explicit ids
CallerDoc == [page_content |-> "c2", file_name |-> FileA]

BatchSizes == {1, 2}

SeqsUpTo(S, n) == UNION {[1..m -> S] : m \in 0..n}

\* the argument lists of add_documents
GeneratedDocLists == SeqsUpTo(Docs, MaxChunks)
CallerDocLists == SeqsUpTo({CallerDoc}, MaxChunks)
CallerIdLists == SeqsUpTo(CallerIds, MaxChunks)

(************************* string helpers **********************************)
\* str.startswith
StartsWith(s, prefix) ==
    /\ Len(s) >= Len(prefix)
    /\ \A i \in 1..Len(prefix) : s[i] = prefix[i]

\* f"{source}_{uuid}"
MakeId(source, uuid) == source \o <<"_">> \o <<uuid>>

Range(s) == {s[i] : i \in 1..Len(s)}

(******************** langchain FAISS vector store *************************)
\* A store is the triple the langchain FAISS object holds: the faiss index
\* (the sequence of stored vectors), index_to_docstore_id (position -> id,
\* kept as the sequence of ids at positions 0, 1, ...) and the docstore
\* (id -> Document).
EmptyDocstore == [id \in {} |-> [page_content |-> InitText, file_name |-> <<>>]]

\* embeddings.embed_documents / embed_query: the vector of a text
Embed(text) == <<"vec", text>>

DocIds(store) == DOMAIN store.docstore

\* the ids a store knows under any of its two id structures
KnownIds(store) == DocIds(store) \cup Range(store.i2d)

\* uuid.uuid4() called n times: n distinct tokens that occur in no id of
\* idset (a uuid never repeats; the smallest free tokens stand for them)
UsedTokens(idset) == {id[Len(id)] : id \in {i \in idset : Len(i) > 0}}

FreshUuids(idset, n) ==
    LET free == {t \in 1..(Cardinality(idset) + n) : ToString(t) \notin UsedTokens(idset)}
        pick[k \in 0..n] ==
            IF k = 0 THEN <<>>
            ELSE LET prev == pick[k - 1]
                     cand == {t \in free : ToString(t) \notin Range(prev)}
                     m == CHOOSE t \in cand : \A u \in cand : t <= u
                 IN Append(prev, ToString(m))
    IN pick[n]

\* InMemoryDocstore.add: the docstore extended by ids[i] -> docs[i]
DocstoreAdd(docstore, docs, ids) ==
    [id \in DOMAIN docstore \cup Range(ids) |->
        IF id \in Range(ids)
        THEN docs[CHOOSE i \in 1..Len(ids) : ids[i] = id]
        ELSE docstore[id]]

\* FAISS.__add, reached from add_documents(documents=batch, ids=batch_ids)
\* and from from_texts: embed the texts; refuse a list of ids of another
\* length and duplicate ids; append the vectors to the index; add the
\* documents to the docstore, which refuses an id it already holds (the
\* vectors are in the index by then); extend index_to_docstore_id from its
\* own length.
FaissAdd(store, docs, ids, embedOk) ==
    IF ~embedOk THEN [store |-> store, ok |-> FALSE]
    ELSE IF Len(docs) # Len(ids) THEN [store |-> store, ok |-> FALSE]
    ELSE IF Cardinality(Range(ids)) # Len(ids) THEN [store |-> store, ok |-> FALSE]
    ELSE LET vectors == [i \in 1..Len(docs) |-> Embed(docs[i].page_content)]
             grown == [store EXCEPT !.index = store.index \o vectors]
         IN IF Range(ids) \cap DocIds(store) # {}
            THEN [store |-> grown, ok |-> FALSE]
            ELSE [store |-> [grown EXCEPT !.docstore = DocstoreAdd(store.docstore, docs, ids),
                                          !.i2d = store.i2d \o ids],
                  ok |-> TRUE]

\* the sequence s without the positions in drop
RemovePositions(s, drop) ==
    LET keep[i \in 0..Len(s)] ==
            IF i = 0 THEN <<>>
            ELSE IF i \in drop THEN keep[i - 1] ELSE Append(keep[i - 1], s[i])
    IN keep[Len(s)]

\* FAISS.delete(ids): refuse ids the mapping does not hold; remove the
\* vectors at the mapped positions; delete the ids from the docstore, which
\* raises when it holds none of them and on the first id it does not hold;
\* renumber the remaining mapping entries from 0.
FaissDelete(store, ids) ==
    IF Range(ids) \ Range(store.i2d) # {} THEN [store |-> store, ok |-> FALSE]
    ELSE LET reversed_index == [id \in Range(ids) |->
                 CHOOSE p \in 1..Len(store.i2d) :
                     /\ store.i2d[p] = id
                     /\ \A q \in 1..Len(store.i2d) : store.i2d[q] = id => q <= p]
             index_to_delete == {reversed_index[id] : id \in Range(ids)}
             shrunk == [store EXCEPT !.index = RemovePositions(store.index, index_to_delete)]
             held == {i \in 1..Len(ids) : ids[i] \in DocIds(store)}
             firstGap == IF held = 1..Len(ids) THEN Len(ids) + 1
                         ELSE CHOOSE i \in 1..Len(ids) :
                                  /\ i \notin held
                                  /\ \A j \in 1..(i - 1) : j \in held
             popped == {ids[i] : i \in 1..(firstGap - 1)}
             docstore1 == [id \in DocIds(store) \ popped |-> store.docstore[id]]
         IN IF held = {} THEN [store |-> shrunk, ok |-> FALSE]
            ELSE IF firstGap <= Len(ids)
            THEN [store |-> [shrunk EXCEPT !.docstore = docstore1], ok |-> FALSE]
            ELSE [store |-> [shrunk EXCEPT !.docstore = docstore1,
                                           !.i2d = RemovePositions(store.i2d, index_to_delete)],
                  ok |-> TRUE]

\* squared L2 distance of two embedded texts, as far as the order of hits
\* needs it: 0 for the same text, 1 otherwise
Distance(v, w) == IF v = w THEN 0 ELSE 1

\* index.search(vector, k): the positions of the k nearest vectors, nearest
\* first, equal distances in index order; fewer when the index is smaller
NearestPositions(index, query, k) ==
    LET qv == Embed(query)
        near == SelectSeq([i \in 1..Len(index) |-> i], LAMBDA i : Distance(index[i], qv) = 0)
        far == SelectSeq([i \in 1..Len(index) |-> i], LAMBDA i : Distance(index[i], qv) # 0)
        order == near \o far
    IN SubSeq(order, 1, IF k < Len(order) THEN k ELSE Len(order))

\* FAISS.similarity_search: each hit position is looked up in
\* index_to_docstore_id (KeyError for a position it does not hold) and then
\* in the docstore (ValueError for an id it does not hold)
SimilaritySearch(store, query, k) ==
    LET hits == NearestPositions(store.index, query, k)
    IN IF \E i \in 1..Len(hits) : hits[i] > Len(store.i2d)
       THEN [result |-> "KeyError", docs |-> <<>>]
       ELSE IF \E i \in 1..Len(hits) : store.i2d[hits[i]] \notin DocIds(store)
       THEN [result |-> "ValueError", docs |-> <<>>]
       ELSE [result |-> "ok", docs |-> [i \in 1..Len(hits) |-> store.docstore[store.i2d[hits[i]]]]]

\* FAISS.from_texts([InitText], embeddings): a new store holding the
\* sentinel text under a uuid of its own
NoStore == [index |-> <<>>, i2d |-> <<>>, docstore |-> EmptyDocstore]

FromTexts(texts, uuids) ==
    FaissAdd(NoStore,
             [i \in 1..Len(texts) |-> [page_content |-> texts[i], file_name |-> <<>>]],
             [i \in 1..Len(texts) |-> <<uuids[i]>>], TRUE).store

(************************** persisted index ********************************)
\* The index directory: "missing", "empty", "corrupt" (FAISS.load_local
\* raises) or "valid" holding the store that save_local wrote.
\* FAISS.save_local(str(FAISS_INDEX_PATH)): index.faiss and index.pkl are
\* overwritten with the store
SaveLocal(store) == [kind |-> "valid", store |-> store]

\* a variant of load_local that reads index.faiss and not index.pkl
LoadLocalIndexOnly(dsk) == [dsk.store EXCEPT !.i2d = <<>>, !.docstore = EmptyDocstore]

\* FAISS.load_local(folder_path=str(FAISS_INDEX_PATH), ...)
LoadLocal(dsk) == dsk.store

(************************** FAISSVectorStore *******************************)
\* the record of the last call: what was called, with which arguments, and
\* what it returned
NoCall == [op |-> "none", result |-> "none", doc_id |-> <<>>, n_docs |-> 0, mismatch |-> FALSE,
           batch_size |-> 0, failedAt |-> 0, saves |-> <<>>, found |-> "none"]

Min(a, b) == IF a < b THEN a ELSE b

\* DocumentLoaderService.batch_process_documents; also the slicing of ids
\* into id_batches
batch_process_documents(documents, batch_size) ==
    LET n == Len(documents)
        nb == (n + batch_size - 1) \div batch_size
    IN [b \in 1..nb |-> SubSeq(documents, (b - 1) * batch_size + 1, Min(b * batch_size, n))]

\* a variant of _load_or_create_vector_store that does not save the store
\* it creates
load_or_create_without_save(dsk) ==
    IF dsk.kind = "valid"
    THEN [store |-> LoadLocal(dsk), disk |-> dsk]
    ELSE [store |-> FromTexts(<<InitText>>, FreshUuids({}, 1)), disk |-> dsk]

\* _load_or_create_vector_store: load the saved store when the directory
\* exists, is not empty and loads; otherwise create the sentinel store and
\* save it
load_or_create_vector_store(dsk) ==
    IF dsk.kind = "valid"
    THEN [store |-> LoadLocal(dsk), disk |-> dsk]
    ELSE LET fresh == FromTexts(<<InitText>>, FreshUuids({}, 1))
         IN [store |-> fresh, disk |-> SaveLocal(fresh)]

\* add_documents, lines 103-111: one generated id per document
generated_ids(documents, known) ==
    LET uuids == FreshUuids(known, Len(documents))
    IN [i \in 1..Len(documents) |-> MakeId(documents[i].file_name, uuids[i])]

\* a variant of the loop body that saves the store after every batch
BatchStepSaving(acc, batch, batch_ids, i, embedOk) ==
    LET r == FaissAdd(acc.store, batch, batch_ids, embedOk)
    IN IF r.ok THEN [acc EXCEPT !.store = r.store, !.disk = SaveLocal(r.store),
                                !.saves = Append(acc.saves, i)]
       ELSE [acc EXCEPT !.store = r.store, !.failedAt = i]

\* a variant of the loop body that reloads the saved store when a batch
\* raises
BatchStepRollback(acc, batch, batch_ids, i, embedOk) ==
    LET r == FaissAdd(acc.store, batch, batch_ids, embedOk)
    IN IF r.ok THEN [acc EXCEPT !.store = r.store]
       ELSE [acc EXCEPT !.store = LoadLocal(acc.disk), !.failedAt = i]

\* add_documents, the body of the batch loop (lines 126-132): acc is the
\* state the loop carries; a batch that raises ends the loop
BatchStep(acc, batch, batch_ids, i, embedOk) ==
    LET r == FaissAdd(acc.store, batch, batch_ids, embedOk)
    IN IF r.ok THEN [acc EXCEPT !.store = r.store]
       ELSE [acc EXCEPT !.store = r.store, !.failedAt = i]

\* a variant of the check that lets a shorter list of ids pass
LengthsMatchAtLeast(documents, ids) == Len(documents) >= Len(ids)

\* add_documents, line 114: the check of the two lengths
LengthsMatch(documents, ids) == Len(documents) = Len(ids)

\* add_documents: embedFailAt names the batch whose embedding call raises
\* (0: none does). The loop runs over zip(batches, id_batches).
add_documents(store, dsk, documents, batch_size, ids, embedFailAt) ==
    LET call == [NoCall EXCEPT !.op = "add", !.n_docs = Len(documents),
                               !.mismatch = ids.given /\ Len(ids.list) # Len(documents)]
    IN IF documents = <<>>
       THEN [store |-> store, disk |-> dsk, last |-> [call EXCEPT !.result = "False"]]
       ELSE LET ids1 == IF ~ids.given
                        THEN generated_ids(documents, KnownIds(store) \cup KnownIds(dsk.store))
                        ELSE ids.list
            IN IF ~LengthsMatch(documents, ids1)
               THEN [store |-> store, disk |-> dsk, last |-> [call EXCEPT !.result = "ValueError"]]
               ELSE LET batches == batch_process_documents(documents, batch_size)
                        id_batches == batch_process_documents(ids1, batch_size)
                        zipped == Min(Len(batches), Len(id_batches))
                        loop[i \in 0..zipped] ==
                            IF i = 0
                            THEN [store |-> store, disk |-> dsk, failedAt |-> 0, saves |-> <<>>]
                            ELSE IF loop[i - 1].failedAt # 0 THEN loop[i - 1]
                            ELSE BatchStep(loop[i - 1], batches[i], id_batches[i], i, embedFailAt # i)
                        end == loop[zipped]
                        call1 == [call EXCEPT !.batch_size = batch_size]
                    IN IF end.failedAt # 0
                       THEN [store |-> end.store, disk |-> end.disk,
                             last |-> [call1 EXCEPT !.result = "raised", !.failedAt = end.failedAt,
                                                    !.saves = end.saves]]
                       ELSE [store |-> end.store, disk |-> SaveLocal(end.store),
                             last |-> [call1 EXCEPT !.result = "True",
                                                    !.saves = Append(end.saves, zipped)]]

\* search: similarity_search(query, k=k or Config.TOP_K); k = 0 stands for
\* an omitted k
search(store, query, k) == SimilaritySearch(store, query, IF k = 0 THEN TOP_K ELSE k)

\* a variant of save that writes to another directory
saveElsewhere(store, dsk, path) == dsk

\* save(path): save_path = path or str(FAISS_INDEX_PATH); the index
\* directory is written only when save_path names it
DefaultPath == "FAISS_INDEX_PATH"

save(store, dsk, path) ==
    LET save_path == IF path = "None" THEN DefaultPath ELSE path
    IN IF save_path = DefaultPath THEN SaveLocal(store) ELSE dsk

\* a variant of clear without index.reset()
ClearedStoreKeepsIndex(store) == [store EXCEPT !.i2d = <<>>, !.docstore = EmptyDocstore]

\* clear, lines 215-222: index.reset(), an empty index_to_docstore_id and a
\* new InMemoryDocstore
ClearedStore(store) == [index |-> <<>>, i2d |-> <<>>, docstore |-> EmptyDocstore]

clear(store, dsk) ==
    LET cleared == ClearedStore(store)
    IN [store |-> cleared, disk |-> SaveLocal(cleared),
        last |-> [NoCall EXCEPT !.op = "clear", !.result = "None"]]

\* delete(ids)
delete(store, dsk, ids) ==
    LET call == [NoCall EXCEPT !.op = "delete"]
    IN IF ids = <<>>
       THEN [store |-> store, disk |-> dsk, last |-> [call EXCEPT !.result = "False"]]
       ELSE LET r == FaissDelete(store, ids)
            IN IF r.ok
               THEN [store |-> r.store, disk |-> save(r.store, dsk, "None"),
                     last |-> [call EXCEPT !.result = "True"]]
               ELSE [store |-> r.store, disk |-> dsk, last |-> [call EXCEPT !.result = "False"]]

\* a variant of the scan that stops at the first matching id
MatchingIdsFirstOnly(all_ids, doc_id) ==
    LET m == SelectSeq(all_ids, LAMBDA id : StartsWith(id, doc_id \o <<"_">>))
    IN IF m = <<>> THEN m ELSE <<m[1]>>

\* a variant of the scan without the prefix test
MatchingIdsAll(all_ids, doc_id) == all_ids

\* delete_by_source, lines 270-279: the ids that start with f"{doc_id}_"
MatchingIds(all_ids, doc_id) ==
    SelectSeq(all_ids, LAMBDA id : StartsWith(id, doc_id \o <<"_">>))

\* delete_by_source(doc_id)
delete_by_source(store, dsk, doc_id) ==
    LET call == [NoCall EXCEPT !.op = "delete_by_source", !.doc_id = doc_id]
    IN IF doc_id = <<>>
       THEN [store |-> store, disk |-> dsk, last |-> [call EXCEPT !.result = "False"]]
       ELSE LET ids_to_delete == MatchingIds(store.i2d, doc_id)
            IN IF ids_to_delete = <<>>
               THEN [store |-> store, disk |-> dsk, last |-> [call EXCEPT !.result = "False"]]
               ELSE LET r == FaissDelete(store, ids_to_delete)
                    IN IF r.ok
                       THEN [store |-> r.store, disk |-> save(r.store, dsk, "None"),
                             last |-> [call EXCEPT !.result = "True"]]
                       ELSE [store |-> r.store, disk |-> dsk,
                             last |-> [call EXCEPT !.result = "False"]]

(************************* document registry *******************************)
\* DocumentLoaderService (document_loader.py). A file name is a sequence of
\* tokens that ends with its suffix; the text of the record file is a
\* sequence of tokens in which Newline is the character "\n".
Newline == "\n"

TxtA == <<"a", ".txt">>
MdB == <<"b", ".md">>
ExeX == <<"x", ".exe">>

\* names of documents, and names of uploads (one with a suffix that no
\* loader takes)
DocNames == {TxtA, MdB}
UploadNames == DocNames \cup {ExeX}

\* the keys of SUPPORTED_LOADERS
SUPPORTED_LOADERS == {".pdf", ".docx", ".doc", ".txt", ".html", ".htm", ".md"}

\* Path(file_path).suffix.lower()
Suffix(name) == IF name = <<>> THEN "" ELSE name[Len(name)]

\* the default batch_size of FAISSVectorStore.add_documents
DEFAULT_BATCH_SIZE == 10

\* the record file PROCESSED_DOCS_RECORD: whether it exists, and its text
NoRecord == [exists |-> FALSE, text |-> <<>>]

\* str.splitlines(): the lines of a text; a final "\n" ends the last line
\* and opens no empty one
SplitLines(text) ==
    LET scan[i \in 0..Len(text)] ==
            IF i = 0 THEN [lines |-> <<>>, cur |-> <<>>, open |-> FALSE]
            ELSE LET p == scan[i - 1]
                 IN IF text[i] = Newline
                    THEN [lines |-> Append(p.lines, p.cur), cur |-> <<>>, open |-> FALSE]
                    ELSE [lines |-> p.lines, cur |-> Append(p.cur, text[i]), open |-> TRUE]
        end == scan[Len(text)]
    IN IF end.open THEN Append(end.lines, end.cur) ELSE end.lines

\* "\n".join(lines)
Join(lines) ==
    LET cat[i \in 0..Len(lines)] ==
            IF i = 0 THEN <<>>
            ELSE IF i = 1 THEN lines[1]
            ELSE cat[i - 1] \o <<Newline>> \o lines[i]
    IN cat[Len(lines)]

\* list_all_processed_documents
list_all_processed_documents(rec) ==
    IF ~rec.exists THEN <<>> ELSE SplitLines(rec.text)

\* _is_document_processed
is_document_processed(rec, doc_id) ==
    IF ~rec.exists THEN FALSE
    ELSE LET processed_ids == SplitLines(rec.text)
         IN \E i \in 1..Len(processed_ids) : processed_ids[i] = doc_id

\* _record_processed_document: open(..., "a") and write f"{doc_id}\n"
record_processed_document(rec, doc_id) ==
    [exists |-> TRUE, text |-> rec.text \o doc_id \o <<Newline>>]

\* list.remove(x): the list without the first occurrence of x
RemoveFirst(lines, x) ==
    LET p == CHOOSE i \in 1..Len(lines) :
                 lines[i] = x /\ \A j \in 1..(i - 1) : lines[j] # x
    IN SubSeq(lines, 1, p - 1) \o SubSeq(lines, p + 1, Len(lines))

\* delete_processed_document, lines 208-212: the list that is written back
RemainingIds(processed_ids, doc_id) ==
    IF \E i \in 1..Len(processed_ids) : processed_ids[i] = doc_id
    THEN RemoveFirst(processed_ids, doc_id)
    ELSE processed_ids

\* delete_processed_document, lines 213-214: open(..., "w") and write the
\* joined list
RewriteRecord(processed_ids) == [exists |-> TRUE, text |-> Join(processed_ids)]

\* delete_processed_document: unlink the saved file when it exists, then
\* rewrite the record without doc_id
delete_processed_document(rec, dir, doc_id) ==
    [record |-> RewriteRecord(RemainingIds(list_all_processed_documents(rec), doc_id)),
     documents_dir |-> dir \ {doc_id}]

\* a variant of clear_all_processed_documents with one try block around
\* both halves
clear_all_in_one_try(rec, dir, truncOk, unlinked) ==
    IF truncOk
    THEN [record |-> [exists |-> TRUE, text |-> <<>>], documents_dir |-> dir \ unlinked]
    ELSE [record |-> rec, documents_dir |-> dir]

\* clear_all_processed_documents: truncOk tells whether opening the record
\* for writing succeeds; unlinked is the set of files the loop removes (all
\* of them unless an unlink raises). Each half has a try block of its own.
clear_all_processed_documents(rec, dir, truncOk, unlinked) ==
    [record |-> IF truncOk THEN [exists |-> TRUE, text |-> <<>>] ELSE rec,
     documents_dir |-> dir \ unlinked]

\* an uploaded file: its name, and what the loader makes of its bytes
\* (loads: the loader and the splitter do not raise; n: the chunks they give)
Uploads ==
    {[name |-> nm, loads |-> ld, n |-> k] :
        nm \in UploadNames, ld \in BOOLEAN, k \in 0..1} \
    {[name |-> nm, loads |-> FALSE, n |-> 1] : nm \in UploadNames}

\* load_document: ValueError for a suffix without loader; otherwise the
\* chunks of the file, each with metadata["file_name"] = path.name
load_document(file) ==
    IF Suffix(file.name) \notin SUPPORTED_LOADERS
    THEN [raised |-> TRUE, chunks |-> <<>>]
    ELSE IF ~file.loads THEN [raised |-> TRUE, chunks |-> <<>>]
    ELSE [raised |-> FALSE,
          chunks |-> [i \in 1..file.n |-> [page_content |-> "c1", file_name |-> file.name]]]

\* _process_file(file_path, skip_processed): skip a processed name; write
\* the upload into the documents directory; load it; record it. Whatever
\* load_document raises is logged and [] is returned.
process_file(rec, dir, file, skip_processed) ==
    IF skip_processed /\ is_document_processed(rec, file.name)
    THEN [chunks |-> <<>>, record |-> rec, documents_dir |-> dir, outcome |-> "skipped"]
    ELSE LET dir1 == dir \cup {file.name}
             ld == load_document(file)
         IN IF ld.raised
            THEN [chunks |-> <<>>, record |-> rec, documents_dir |-> dir1,
                  outcome |-> "failed"]
            ELSE [chunks |-> ld.chunks,
                  record |-> record_processed_document(rec, file.name),
                  documents_dir |-> dir1, outcome |-> "loaded"]

\* the record of the last call to the registry or to the chain
NoRegCall == [op |-> "none", doc_id |-> <<>>, result |-> "none", outcome |-> "none",
              n_chunks |-> 0, skip_processed |-> FALSE, truncOk |-> TRUE,
              unlinked |-> {}, had |-> {}]

(********************* chain: document operations **************************)
\* FAISSConversationalRAGChain (faiss_conversational_chain.py)
SkipMessage == "Skipping already processed file"

\* add_documents(file_path): _process_file(file_path, skip_processed=True);
\* without chunks return the skip message; otherwise add the chunks to the
\* index (an exception of the index manager leaves the method); the method
\* then returns None
chain_add_documents(store, dsk, lst, rec, dir, file, embedFailAt) ==
    LET p == process_file(rec, dir, file, TRUE)
        call == [NoRegCall EXCEPT !.op = "add_documents", !.doc_id = file.name,
                                  !.outcome = p.outcome, !.n_chunks = Len(p.chunks),
                                  !.skip_processed = TRUE]
    IN IF p.chunks = <<>>
       THEN [store |-> store, disk |-> dsk, last |-> lst,
             record |-> p.record, documents_dir |-> p.documents_dir,
             reg_last |-> [call EXCEPT !.result = SkipMessage]]
       ELSE LET a == add_documents(store, dsk, p.chunks, DEFAULT_BATCH_SIZE, None, embedFailAt)
            IN [store |-> a.store, disk |-> a.disk, last |-> a.last,
                record |-> p.record, documents_dir |-> p.documents_dir,
                reg_last |-> [call EXCEPT !.result = IF a.last.result = "True"
                                                     THEN "None" ELSE "raised"]]

\* delete_documents(doc_id): delete_processed_document, then
\* delete_by_source
chain_delete_documents(store, dsk, rec, dir, doc_id) ==
    LET d == delete_processed_document(rec, dir, doc_id)
        b == delete_by_source(store, dsk, doc_id)
    IN [store |-> b.store, disk |-> b.disk, last |-> b.last,
        record |-> d.record, documents_dir |-> d.documents_dir,
        reg_last |-> [NoRegCall EXCEPT !.op = "delete_documents", !.doc_id = doc_id,
                                       !.result = "None"]]

\* clear_documents(): clear_all_processed_documents, then clear
chain_clear_documents(store, dsk, rec, dir) ==
    LET c == clear_all_processed_documents(rec, dir, TRUE, dir)
        b == clear(store, dsk)
    IN [store |-> b.store, disk |-> b.disk, last |-> b.last,
        record |-> c.record, documents_dir |-> c.documents_dir,
        reg_last |-> [NoRegCall EXCEPT !.op = "clear_documents", !.result = "None"]]

(************************* long-term memory ********************************)
\* long_term_memory.py. A content is a sequence of tokens; " " is a blank.
Blank == " "

RoleUser == <<"user">>
RoleAssistant == <<"assistant">>
Roles == {RoleUser, RoleAssistant}

\* hashlib.md5(raw).hexdigest(): the digest of a text, taken as free of
\* collisions on the texts of the model
Md5(raw) == <<"md5">> \o raw

\* a variant of generate_msg_id that hashes the content alone
generate_msg_id_of_content(content, role) == Md5(content)

\* generate_msg_id(content, role): the digest of f"{role}:{content}"
generate_msg_id(content, role) == Md5(role \o <<":">> \o content)

\* content.strip() is not empty
HasText(content) == \E i \in 1..Len(content) : content[i] # Blank

\* " ".join(text_parts) of a list content
JoinParts(parts) ==
    LET cat[i \in 0..Len(parts)] ==
            IF i = 0 THEN <<>>
            ELSE IF i = 1 THEN parts[1]
            ELSE cat[i - 1] \o <<Blank>> \o parts[i]
    IN cat[Len(parts)]

\* the content of a message: a str, or a list of items with a "text"
TextOf(content) == IF content.is_list THEN JoinParts(content.parts) ELSE content.text

StrContent(text) == [is_list |-> FALSE, text |-> text, parts |-> <<>>]
ListContent(parts) == [is_list |-> TRUE, text |-> <<>>, parts |-> parts]

\* the Chroma collection "conversation_history": id -> entry
EmptyCollection == [id \in {} |-> [page_content |-> <<>>, role |-> <<>>, timestamp |-> 0]]

\* Chroma.add_texts(texts=[content], metadatas=[...], ids=[msg_id]): the
\* collection upserts, so an id it holds is overwritten
add_texts(collection, text, metadata, id) ==
    [i \in DOMAIN collection \cup {id} |->
        IF i = id THEN [page_content |-> text, role |-> metadata.role,
                        timestamp |-> metadata.timestamp]
        ELSE collection[i]]

\* lines 94-105 and 130-140: store a content that is a non-blank str under
\* its id; an exception of add_texts (addOk is false) is logged
persist(collection, content, role, now, addOk) ==
    IF HasText(content) /\ addOk
    THEN add_texts(collection, content, [role |-> role, timestamp |-> now],
                   generate_msg_id(content, role))
    ELSE collection

\* save_user_messages_middleware: only the last message of state.messages,
\* when it is a human message
save_user_messages_middleware(collection, messages, now, addOk) ==
    IF messages = <<>> THEN collection
    ELSE LET last_msg == messages[Len(messages)]
         IN IF last_msg.type = "human"
            THEN persist(collection, TextOf(last_msg.content), RoleUser, now, addOk)
            ELSE collection

\* save_assistant_response_middleware: the response of the model unless it
\* carries tool calls
save_assistant_response_middleware(collection, response, now, addOk) ==
    IF response.tool_calls THEN collection
    ELSE persist(collection, TextOf(response.content), RoleAssistant, now, addOk)

(*************************** agent pipeline ********************************)
\* the messages of a thread: HumanMessage, AIMessage (the only class with
\* the attribute tool_calls) and ToolMessage
HumanMessage(text) == [type |-> "human", content |-> StrContent(text), tool_calls |-> FALSE]
AIMessage(text, tool_calls) == [type |-> "ai", content |-> StrContent(text), tool_calls |-> tool_calls]
ToolMessage(text) == [type |-> "tool", content |-> StrContent(text), tool_calls |-> FALSE]

\* what the model's response is when the state carries none
NoResponse == [type |-> "none", content |-> StrContent(<<>>), tool_calls |-> FALSE]

\* the state handed to a hook: a dict with the key "messages", or an
\* object with the attributes messages and response
DictState(messages) == [is_dict |-> TRUE, messages |-> messages, response |-> NoResponse]
ObjectState(messages, response) == [is_dict |-> FALSE, messages |-> messages, response |-> response]

\* getattr(state, "messages", []): a dict has keys, not attributes
getattr_messages(state) == IF state.is_dict THEN <<>> ELSE state.messages

\* hasattr(state, "response")
hasattr_response(state) == ~state.is_dict /\ state.response.type # "none"

\* isinstance(last_msg, AIMessage) and last_msg.tool_calls
IsDanglingToolCall(msg) == msg.type = "ai" /\ msg.tool_calls

\* a history that ends in an AI message with tool calls
EndsDangling(messages) ==
    messages # <<>> /\ IsDanglingToolCall(messages[Len(messages)])

\* sanitize_dangling_tool_middleware(state, runtime): the state it returns
sanitize_dangling_tool_middleware(state) ==
    LET messages == getattr_messages(state)
    IN IF messages = <<>> THEN state
       ELSE IF IsDanglingToolCall(messages[Len(messages)])
            THEN [state EXCEPT !.messages = SubSeq(messages, 1, Len(messages) - 1)]
            ELSE state

\* SummarizationMiddleware(max_tokens_before_summary, messages_to_keep):
\* the tokens of a history are counted over its contents
max_tokens_before_summary == 4000
messages_to_keep == 20

RECURSIVE CountTokens(_)
CountTokens(messages) ==
    IF messages = <<>> THEN 0
    ELSE Len(Head(messages).content.text) + CountTokens(Tail(messages))

SummaryMessage == HumanMessage(<<"summary">>)

SummarizationMiddleware(messages) ==
    IF CountTokens(messages) <= max_tokens_before_summary \/ Len(messages) <= messages_to_keep
    THEN messages
    ELSE <<SummaryMessage>> \o SubSeq(messages, Len(messages) - messages_to_keep + 1, Len(messages))

\* lines 37-44: the text the retrieval searches for
current_query(messages) ==
    LET last_msg == messages[Len(messages)]
    IN IF last_msg.type = "human" THEN last_msg.content.text
       ELSE IF last_msg.type # "ai" THEN last_msg.content.text
       ELSE <<>>

\* Chroma.similarity_search(query, k): the sets of ids the search may
\* return, the k entries nearest to the query; an entry with the text of
\* the query is nearer than one with another text
HISTORY_K == 3

similarity_search(collection, query, k) ==
    {R \in SUBSET DOMAIN collection :
        /\ Cardinality(R) = Min(k, Cardinality(DOMAIN collection))
        /\ \A a \in R, b \in DOMAIN collection \ R :
               collection[b].page_content = query => collection[a].page_content = query}

\* runtime.kwargs["system"] is a sequence of blocks; the block the
\* retrieval appends lists the texts it found
additional_prompt(collection, results) ==
    [kind |-> "memory", entries |-> {collection[id].page_content : id \in results}]

\* retrieve_similar_history_middleware(state, runtime): results is what
\* the search returns when it does not raise (searchOk); the call leaves
\* the system prompt of runtime.kwargs, the ids it found, and whether the
\* exception of the search left the hook
retrieve_similar_history_middleware(collection, state, system, results, searchOk) ==
    LET messages == getattr_messages(state)
        skip == [system |-> system, results |-> {}, raised |-> FALSE, searched |-> FALSE]
    IN IF messages = <<>> THEN skip
       ELSE IF current_query(messages) = <<>> THEN skip
       ELSE IF ~searchOk THEN [skip EXCEPT !.raised = TRUE, !.searched = TRUE]
       ELSE IF results = {} THEN [skip EXCEPT !.searched = TRUE]
       ELSE [system |-> Append(system, additional_prompt(collection, results)),
             results |-> results, raised |-> FALSE, searched |-> TRUE]

\* the after_model hook on the state: lines 113-114, then the response
save_assistant_response(collection, state, now, addOk) ==
    IF ~hasattr_response(state) THEN collection
    ELSE save_assistant_response_middleware(collection, state.response, now, addOk)

\* the list with the sanitizer after the retrieval
middleware_sanitizer_late ==
    <<"SummarizationMiddleware", "retrieve_similar_history_middleware",
      "sanitize_dangling_tool_middleware", "save_user_messages_middleware",
      "save_assistant_response_middleware">>

\* the middleware list of create_agent, in its order
middleware ==
    <<"sanitize_dangling_tool_middleware", "SummarizationMiddleware",
      "retrieve_similar_history_middleware", "save_user_messages_middleware",
      "save_assistant_response_middleware">>

IsBeforeModel(name) == name # "save_assistant_response_middleware"

\* the before_model hooks, which run in the order of the list
before_model_hooks == SelectSeq(middleware, IsBeforeModel)

\* a run that resumes the thread without a new message
stream_resume(messages, prompt) == messages

\* agent.stream({"messages": [{"role": "user", "content": prompt}]}): the
\* message is appended to the messages of the thread
stream_input(messages, prompt) == Append(messages, HumanMessage(prompt))

(****************************** sessions ***********************************)
\* faiss_conversational_chain.py, lines 60-120 and 166-188. A session
\* holds the number of its construction, the messages of the database its
\* connection has open, and whether that database is still a file of the
\* directory
SessionIds == {"s1", "s2"}

NoSessions == [s \in {} |-> [instance |-> 0, history |-> <<>>, linked |-> FALSE]]

\* lines 94-96: every file under Config.SHORT_TERM_MEMORY is unlinked
unlink_all(files) == [f \in {} |-> <<>>]

\* FAISSConversationalRAGChain(session_id): the files are unlinked, and
\* sqlite3.connect opens "{session_id}.db", creating it when it is missing
FAISSConversationalRAGChain(files, session_id, instance) ==
    LET left == unlink_all(files)
        db == IF session_id \in DOMAIN left THEN left[session_id] ELSE <<>>
    IN [session |-> [instance |-> instance, history |-> db, linked |-> TRUE],
        files |-> [f \in DOMAIN left \cup {session_id} |-> IF f = session_id THEN db ELSE left[f]]]

\* get_conversational_chain(session_id): the cached session, or a new one;
\* the connections of the other sessions keep the databases they opened
get_conversational_chain(cache, files, session_id, instance) ==
    IF session_id \in DOMAIN cache
    THEN [sessions |-> cache, files |-> files, created |-> FALSE]
    ELSE LET made == FAISSConversationalRAGChain(files, session_id, instance)
         IN [sessions |->
                 [s \in DOMAIN cache \cup {session_id} |->
                     IF s = session_id THEN made.session
                     ELSE [cache[s] EXCEPT !.linked = @ /\ s \in DOMAIN made.files]],
             files |-> made.files, created |-> TRUE]

\* clear_session(session_id): FAISSConversationalRAGChain defines no
\* clear_memory, so line 187 raises AttributeError before the del
clear_session(cache, session_id) ==
    IF session_id \in DOMAIN cache
    THEN [sessions |-> cache, raised |-> TRUE]
    ELSE [sessions |-> cache, raised |-> FALSE]

(**************************** retrieval tool *******************************)
\* get_retriever: vector_store.as_retriever(search_type="mmr", k=TOP_K);
\* the retriever fetches the fetch_k nearest vectors and picks k of them
fetch_k == 20

\* the similarity of two vectors as far as the picks need it
Similarity(v, w) == IF v = w THEN 1 ELSE 0

\* the largest similarity of vector v to a vector at the positions picked
Redundancy(index, v, picked) ==
    IF \E j \in 1..Len(picked) : Similarity(index[picked[j]], v) = 1 THEN 1 ELSE 0

\* maximal_marginal_relevance with lambda_mult = 0.5 over the fetched
\* positions: first the nearest, then the position with the largest
\* similarity to the query minus redundancy, the earlier one on a tie
maximal_marginal_relevance(index, query, fetched, k) ==
    LET n == Min(k, Len(fetched))
        score(i, picked) ==
            Similarity(index[fetched[i]], Embed(query))
                - Redundancy(index, index[fetched[i]], picked)
        pick[j \in 0..n] ==
            IF j = 0 THEN <<>>
            ELSE IF j = 1 THEN <<fetched[1]>>
            ELSE LET picked == pick[j - 1]
                     free == {i \in 1..Len(fetched) : fetched[i] \notin Range(picked)}
                     best == CHOOSE i \in free :
                                 \A o \in free :
                                     \/ score(i, picked) > score(o, picked)
                                     \/ score(i, picked) = score(o, picked) /\ i <= o
                 IN Append(picked, fetched[best])
    IN pick[n]

\* retriever.invoke(query): the documents at the picked positions, looked
\* up as in similarity_search
retriever_invoke(store, query) ==
    LET fetched == NearestPositions(store.index, query, fetch_k)
        hits == maximal_marginal_relevance(store.index, query, fetched, TOP_K)
    IN IF \E i \in 1..Len(hits) : hits[i] > Len(store.i2d)
       THEN [result |-> "KeyError", docs |-> <<>>]
       ELSE IF \E i \in 1..Len(hits) : store.i2d[hits[i]] \notin DocIds(store)
       THEN [result |-> "ValueError", docs |-> <<>>]
       ELSE [result |-> "ok", docs |-> [i \in 1..Len(hits) |-> store.docstore[store.i2d[hits[i]]]]]

NoRelevantDocuments == "No relevant documents found."

\* RetrievalTool._run(query): the slot last_docs and the text returned to
\* the model; an exception of the retriever leaves the slot as it is
RetrievalTool_run(store, query, slot) ==
    LET r == retriever_invoke(store, query)
    IN IF r.result # "ok" THEN [last_docs |-> slot, output |-> <<r.result>>]
       ELSE IF r.docs = <<>> THEN [last_docs |-> r.docs, output |-> <<NoRelevantDocuments>>]
       ELSE [last_docs |-> r.docs,
             output |-> [i \in 1..Len(r.docs) |-> r.docs[i].page_content]]

\* doc.metadata.get("file_name", "Unknown document")
UnknownDocument == <<"Unknown document">>
ReferenceName(doc) == IF doc.file_name = NoFile THEN UnknownDocument ELSE doc.file_name

\* web_chatbot.py, lines 428-437: the names of the documents of the slot,
\* each once, in the order of the slot
reference_files(retrieved_docs) ==
    LET names[i \in 0..Len(retrieved_docs)] ==
            IF i = 0 THEN <<>>
            ELSE IF ReferenceName(retrieved_docs[i]) \in Range(names[i - 1])
                 THEN names[i - 1]
                 ELSE Append(names[i - 1], ReferenceName(retrieved_docs[i]))
    IN names[Len(retrieved_docs)]

\* what the last turn showed: whether the model invoked the tool, the text
\* the tool returned, and the references under the answer
NoShown == [invoked |-> FALSE, output |-> <<>>, reference_files |-> <<>>]

(************************** concurrent callers *****************************)
\* the threads that call into the shared singletons (one per browser
\* session)
Threads == {1, 2}

\* what a thread holds of its call: the call and its argument, the ids it
\* has read, the record file as the call found it, and whether a search ran
\* while another thread was inside a writer
NoLocal == [op |-> "none", doc_id |-> <<>>, ids |-> <<>>, start |-> NoRecord,
            overlapped |-> FALSE]

\* FAISS.save_local, first half: faiss.write_index(self.index, "index.faiss")
WriteIndexFile(store, dsk) ==
    [kind |-> "valid", store |-> [dsk.store EXCEPT !.index = store.index]]

\* FAISS.save_local, second half: pickle.dump((self.docstore,
\* self.index_to_docstore_id)) into "index.pkl"
WritePklFile(store, dsk) ==
    [kind |-> "valid",
     store |-> [dsk.store EXCEPT !.docstore = store.docstore, !.i2d = store.i2d]]

(***************************** idle values *********************************)
\* the values the variables of a component keep in the specifications of
\* the other components
IdxIdle ==
    /\ vector_store = NoStore
    /\ disk = [kind |-> "missing", store |-> NoStore]
    /\ last = NoCall

RegIdle ==
    /\ record = NoRecord
    /\ documents_dir = {}
    /\ reg_last = NoRegCall
    /\ ingested = {}

ConIdle ==
    /\ pc = [t \in Threads |-> "idle"]
    /\ local = [t \in Threads |-> NoLocal]

\* the (role, content) pairs the model stores, and the count of each
StoredTexts == {<<"hi">>, <<"yo">>}
Pairs == Roles \X StoredTexts

LtmIdle ==
    /\ chroma_store = EmptyCollection
    /\ persisted = [p \in Pairs |-> 0]

\* the model has not been handed anything yet
NotHanded == [called |-> FALSE, messages |-> <<>>, system |-> <<>>]

\* a turn that has not started
NoTurn ==
    [pc |-> "idle", stage |-> 1, turns |-> 0, calls |-> 0, stage_log |-> <<>>,
     handed |-> NotHanded, response |-> NoResponse, after_ran |-> FALSE,
     retrieved |-> {}, persisted_id |-> <<>>, outcome |-> "none",
     before |-> [chroma_store |-> EmptyCollection, checkpoint |-> <<>>]]

NoSessCall == [op |-> "none", session_id |-> "", created |-> FALSE, raised |-> FALSE,
               had |-> FALSE, written |-> <<>>, instance |-> 0]

TurnIdle ==
    /\ checkpoint = <<>>
    /\ agent_state = DictState(<<>>)
    /\ runtime_kwargs = <<>>
    /\ turn = NoTurn

SessIdle ==
    /\ _sessions = NoSessions
    /\ short_term_memory = [f \in {} |-> <<>>]
    /\ sess_last = NoSessCall

ToolIdle ==
    /\ last_docs = <<>>
    /\ shown = NoShown

AgentIdle == TurnIdle /\ SessIdle /\ ToolIdle

(****************************** actions ************************************)
\* what the index directory can hold when a process starts without a
\* loadable index
Unloadable == {"missing", "empty", "corrupt"}

\* FAISSVectorStore() of a process that finds the directory in state found
Construct(found) ==
    LET dsk == IF found = "valid" THEN disk ELSE [kind |-> found, store |-> NoStore]
        r == load_or_create_vector_store(dsk)
    IN /\ vector_store' = r.store
       /\ disk' = r.disk
       /\ last' = [NoCall EXCEPT !.op = "load", !.result = "ok", !.found = found]
       /\ UNCHANGED <<agentVars, regVars, conVars, ltmVars>>

\* the first construction of the index manager
IdxInit ==
    \E found \in Unloadable :
        LET r == load_or_create_vector_store([kind |-> found, store |-> NoStore])
        IN /\ vector_store = r.store
           /\ disk = r.disk
           /\ last = [NoCall EXCEPT !.op = "load", !.result = "ok", !.found = found]

Init == IdxInit /\ RegIdle /\ ConIdle /\ LtmIdle /\ AgentIdle

\* the process is restarted; the directory is as it was left, or was
\* damaged in between
Restart == \E found \in {"valid", "corrupt"} : Construct(found)

Apply(r) ==
    /\ vector_store' = r.store
    /\ disk' = r.disk
    /\ last' = r.last
    /\ UNCHANGED <<agentVars, regVars, conVars, ltmVars>>

AddGenerated ==
    \E documents \in GeneratedDocLists, batch_size \in BatchSizes, embedFailAt \in 0..MaxChunks :
        /\ Len(vector_store.index) + Len(documents) <= MaxVectors
        /\ embedFailAt * batch_size < Len(documents) + batch_size
        /\ Apply(add_documents(vector_store, disk, documents, batch_size, None, embedFailAt))

AddWithIds ==
    \E documents \in CallerDocLists, ids \in CallerIdLists, batch_size \in BatchSizes :
        /\ Len(ids) - Len(documents) \in {-1, 0, 1}
        /\ Len(vector_store.index) + Len(documents) <= MaxVectors
        /\ Apply(add_documents(vector_store, disk, documents, batch_size, Given(ids), 0))

\* the id lists a caller of delete passes: ids of the index and one id the
\* index does not hold, without repetition
DeleteArgs ==
    LET pool == Range(vector_store.i2d) \cup {<<"a", "_", "x">>}
    IN {s \in SeqsUpTo(pool, 2) : Cardinality(Range(s)) = Len(s)}

Delete == \E ids \in DeleteArgs : Apply(delete(vector_store, disk, ids))

DeleteBySource == \E doc_id \in FileNames : Apply(delete_by_source(vector_store, disk, doc_id))

Clear == Apply(clear(vector_store, disk))

Save ==
    /\ disk' = save(vector_store, disk, "None")
    /\ last' = [NoCall EXCEPT !.op = "save", !.result = "None"]
    /\ UNCHANGED <<agentVars, vector_store, regVars, conVars, ltmVars>>

Search ==
    \E query \in Contents \cup {InitText}, k \in 0..1 :
        /\ last' = [NoCall EXCEPT !.op = "search",
                                  !.result = search(vector_store, query, k).result]
        /\ UNCHANGED <<agentVars, vector_store, disk, regVars, conVars, ltmVars>>

Next ==
    \/ Restart
    \/ AddGenerated
    \/ AddWithIds
    \/ Delete
    \/ DeleteBySource
    \/ Clear
    \/ Save
    \/ Search

Spec == Init /\ [][Next]_vars

(********************** specification: registry ****************************)
\* most calls' worth of text the record file is allowed to grow to
MaxRecorded == 3
\* the tokens of that text: a name of two tokens and its "\n" per call
MaxRecordLen == 3 * MaxRecorded

\* the record file has room for one more name
RoomToRecord(rec, name) == Len(rec.text) + Len(name) + 1 <= MaxRecordLen

RegInit == IdxIdle /\ RegIdle /\ ConIdle /\ LtmIdle /\ AgentIdle

\* _process_file called on the loader
ProcessFile ==
    \E file \in Uploads, skip_processed \in BOOLEAN :
        LET p == process_file(record, documents_dir, file, skip_processed)
        IN /\ RoomToRecord(record, file.name)
           /\ record' = p.record
           /\ documents_dir' = p.documents_dir
           /\ reg_last' = [NoRegCall EXCEPT !.op = "process_file", !.doc_id = file.name,
                                            !.outcome = p.outcome,
                                            !.n_chunks = Len(p.chunks),
                                            !.skip_processed = skip_processed]
           /\ UNCHANGED <<agentVars, ingested, idxVars, conVars, ltmVars>>

\* _record_processed_document called on the loader
RecordProcessed ==
    \E doc_id \in DocNames :
        /\ RoomToRecord(record, doc_id)
        /\ record' = record_processed_document(record, doc_id)
        /\ reg_last' = [NoRegCall EXCEPT !.op = "record", !.doc_id = doc_id, !.result = "None"]
        /\ UNCHANGED <<agentVars, documents_dir, ingested, idxVars, conVars, ltmVars>>

\* the names delete_processed_document is called with: a name of a
\* document, or an entry of the list the registry shows
DeleteNames == DocNames \cup Range(list_all_processed_documents(record))

DeleteProcessed ==
    \E doc_id \in DeleteNames :
        LET d == delete_processed_document(record, documents_dir, doc_id)
        IN /\ record' = d.record
           /\ documents_dir' = d.documents_dir
           /\ reg_last' = [NoRegCall EXCEPT !.op = "delete", !.doc_id = doc_id,
                                            !.result = "None", !.had = documents_dir]
           /\ UNCHANGED <<agentVars, ingested, idxVars, conVars, ltmVars>>

\* clear_all_processed_documents; each half may fail
ClearAllProcessed ==
    \E truncOk \in BOOLEAN, unlinked \in SUBSET documents_dir :
        LET c == clear_all_processed_documents(record, documents_dir, truncOk, unlinked)
        IN /\ record' = c.record
           /\ documents_dir' = c.documents_dir
           /\ reg_last' = [NoRegCall EXCEPT !.op = "clear_all", !.result = "None",
                                            !.truncOk = truncOk, !.unlinked = unlinked,
                                            !.had = documents_dir]
           /\ UNCHANGED <<agentVars, ingested, idxVars, conVars, ltmVars>>

RegNext ==
    \/ ProcessFile
    \/ RecordProcessed
    \/ DeleteProcessed
    \/ ClearAllProcessed

RegistrySpec == RegInit /\ [][RegNext]_vars

(************************ specification: chain *****************************)
\* the chain over a registry and an index manager that were just created
ChainInit ==
    /\ LET r == load_or_create_vector_store([kind |-> "missing", store |-> NoStore])
       IN /\ vector_store = r.store
          /\ disk = r.disk
          /\ last = [NoCall EXCEPT !.op = "load", !.result = "ok", !.found = "missing"]
    /\ RegIdle /\ ConIdle /\ LtmIdle /\ AgentIdle

ChainApply(r) ==
    /\ vector_store' = r.store
    /\ disk' = r.disk
    /\ last' = r.last
    /\ record' = r.record
    /\ documents_dir' = r.documents_dir
    /\ reg_last' = r.reg_last
    /\ UNCHANGED <<agentVars, conVars, ltmVars>>

\* add_documents of the chain; embedFailAt = 1: the embedding call raises.
\* A name counts as ingested when the call returned None.
ChainAdd ==
    \E file \in Uploads, embedFailAt \in 0..1 :
        LET r == chain_add_documents(vector_store, disk, last, record, documents_dir,
                                     file, embedFailAt)
        IN /\ RoomToRecord(record, file.name)
           /\ Len(vector_store.index) + file.n <= MaxVectors
           /\ ChainApply(r)
           /\ ingested' = IF r.reg_last.result = "None"
                          THEN ingested \cup {file.name} ELSE ingested

ChainDelete ==
    \E doc_id \in DeleteNames :
        /\ ChainApply(chain_delete_documents(vector_store, disk, record, documents_dir, doc_id))
        /\ ingested' = ingested \ {doc_id}

ChainClear ==
    /\ ChainApply(chain_clear_documents(vector_store, disk, record, documents_dir))
    /\ ingested' = {}

ChainNext ==
    \/ ChainAdd
    \/ ChainDelete
    \/ ChainClear

ChainSpec == ChainInit /\ [][ChainNext]_vars

(************** specification: concurrent index callers ********************)
\* The threads share the one FAISSVectorStore of get_faiss_vector_store.
\* A call is a sequence of steps; the code takes no lock, so the steps of
\* two calls interleave. pc[t] is the step thread t is at: "idle" between
\* calls, otherwise the next step of its writer.
SetPc(t, label) == pc' = [pc EXCEPT ![t] = label]
SetLocal(t, value) == local' = [local EXCEPT ![t] = value]

ConIdxInit ==
    /\ LET r == load_or_create_vector_store([kind |-> "missing", store |-> NoStore])
       IN /\ vector_store = r.store
          /\ disk = r.disk
    /\ last = NoCall
    /\ RegIdle /\ ConIdle /\ LtmIdle /\ AgentIdle

\* the chunk the threads add
SharedDoc == [page_content |-> "c1", file_name |-> FileA]

\* add_documents, the batch loop (one chunk, one batch); save_local follows
CAdd(t) ==
    \E doc \in {SharedDoc} :
        /\ pc[t] = "idle"
        /\ Len(vector_store.index) < MaxChunks
        /\ Cardinality(KnownIds(vector_store)) < MaxChunks
        /\ vector_store' =
               FaissAdd(vector_store, <<doc>>,
                        generated_ids(<<doc>>, KnownIds(vector_store) \cup KnownIds(disk.store)),
                        TRUE).store
        /\ SetPc(t, "save_faiss")
        /\ UNCHANGED <<agentVars, disk, last, local, regVars, ltmVars>>

\* clear, lines 215-216: index.reset()
CClearReset(t) ==
    /\ pc[t] = "idle"
    /\ vector_store' = [vector_store EXCEPT !.index = <<>>]
    /\ SetPc(t, "clear_mapping")
    /\ UNCHANGED <<agentVars, disk, last, local, regVars, ltmVars>>

\* clear, line 219: index_to_docstore_id = {}
CClearMapping(t) ==
    /\ pc[t] = "clear_mapping"
    /\ vector_store' = [vector_store EXCEPT !.i2d = <<>>]
    /\ SetPc(t, "clear_docstore")
    /\ UNCHANGED <<agentVars, disk, last, local, regVars, ltmVars>>

\* clear, lines 220-222: a new InMemoryDocstore; save_local follows
CClearDocstore(t) ==
    /\ pc[t] = "clear_docstore"
    /\ vector_store' = [vector_store EXCEPT !.docstore = EmptyDocstore]
    /\ SetPc(t, "save_faiss")
    /\ UNCHANGED <<agentVars, disk, last, local, regVars, ltmVars>>

\* delete_by_source, lines 270-283: the scan of the ids; without a match
\* the call returns
CDeleteBySourceScan(t) ==
    \E doc_id \in {FileA} :
        LET ids_to_delete == MatchingIds(vector_store.i2d, doc_id)
        IN /\ pc[t] = "idle"
           /\ SetPc(t, IF ids_to_delete = <<>> THEN "idle" ELSE "delete_ids")
           /\ SetLocal(t, [local[t] EXCEPT !.ids = ids_to_delete])
           /\ UNCHANGED <<agentVars, vector_store, disk, last, regVars, ltmVars>>

\* delete_by_source, line 286: vector_store.delete(ids_to_delete); save
\* follows when it did not raise
CDeleteBySourceDelete(t) ==
    LET r == FaissDelete(vector_store, local[t].ids)
    IN /\ pc[t] = "delete_ids"
       /\ vector_store' = r.store
       /\ SetPc(t, IF r.ok THEN "save_faiss" ELSE "idle")
       /\ SetLocal(t, [local[t] EXCEPT !.ids = <<>>])
       /\ UNCHANGED <<agentVars, disk, last, regVars, ltmVars>>

\* delete(ids), line 245: vector_store.delete(ids) of one id of the index;
\* save follows
CDelete(t) ==
    \E id \in Range(vector_store.i2d) :
        LET r == FaissDelete(vector_store, <<id>>)
        IN /\ pc[t] = "idle"
           /\ vector_store' = r.store
           /\ SetPc(t, IF r.ok THEN "save_faiss" ELSE "idle")
           /\ UNCHANGED <<agentVars, disk, last, local, regVars, ltmVars>>

\* save(): the call is entered; save_local follows
CSave(t) ==
    /\ pc[t] = "idle"
    /\ SetPc(t, "save_faiss")
    /\ UNCHANGED <<agentVars, vector_store, disk, last, local, regVars, ltmVars>>

\* save_local writes index.faiss
CSaveFaiss(t) ==
    /\ pc[t] = "save_faiss"
    /\ disk' = WriteIndexFile(vector_store, disk)
    /\ SetPc(t, "save_pkl")
    /\ UNCHANGED <<agentVars, vector_store, last, local, regVars, ltmVars>>

\* save_local writes index.pkl; the writer returns
CSavePkl(t) ==
    /\ pc[t] = "save_pkl"
    /\ disk' = WritePklFile(vector_store, disk)
    /\ SetPc(t, "idle")
    /\ UNCHANGED <<agentVars, vector_store, last, local, regVars, ltmVars>>

\* thread t is inside a writer: it has entered add, delete,
\* delete_by_source, clear or save and has not returned
Writing(t) == pc[t] # "idle"

\* search: a read of the shared store; the thread notes whether its search
\* ran while another thread was inside a writer
CSearch(t) ==
    /\ pc[t] = "idle"
    /\ SetLocal(t, [local[t] EXCEPT !.op = "search",
                                    !.overlapped = \E u \in Threads \ {t} : Writing(u)])
    /\ UNCHANGED <<agentVars, vector_store, disk, last, pc, regVars, ltmVars>>

ConIdxNext ==
    \E t \in Threads :
        \/ CAdd(t)
        \/ CClearReset(t)
        \/ CClearMapping(t)
        \/ CClearDocstore(t)
        \/ CDeleteBySourceScan(t)
        \/ CDeleteBySourceDelete(t)
        \/ CDelete(t)
        \/ CSave(t)
        \/ CSaveFaiss(t)
        \/ CSavePkl(t)
        \/ CSearch(t)

ConcurrentIndexSpec == ConIdxInit /\ [][ConIdxNext]_vars

(************* specification: concurrent registry callers ******************)
\* Each thread makes one call of the registry; the steps of the two calls
\* interleave (the registry takes no lock and keeps no file open).
RegCalls ==
    {[op |-> o, doc_id |-> d] : o \in {"record", "delete"}, d \in DocNames}
        \cup {[op |-> "clear_all", doc_id |-> <<>>]}

\* the record file the calls start from: texts that RecordProcessed leaves
StartRecords ==
    {[exists |-> TRUE, text |-> MdB \o <<Newline>>],
     [exists |-> TRUE, text |-> TxtA \o <<Newline>> \o MdB \o <<Newline>>]}

ConRegInit ==
    /\ record \in StartRecords
    /\ documents_dir = Range(list_all_processed_documents(record))
    /\ reg_last = NoRegCall
    /\ ingested = {}
    /\ pc = [t \in Threads |-> "call"]
    /\ \E c \in [Threads -> RegCalls] :
           local = [t \in Threads |-> [NoLocal EXCEPT !.op = c[t].op, !.doc_id = c[t].doc_id,
                                                      !.start = record]]
    /\ IdxIdle /\ LtmIdle /\ AgentIdle

\* _record_processed_document: one appending write
RRecord(t) ==
    /\ pc[t] = "call" /\ local[t].op = "record"
    /\ record' = record_processed_document(record, local[t].doc_id)
    /\ SetPc(t, "done")
    /\ UNCHANGED <<agentVars, documents_dir, reg_last, ingested, local, idxVars, ltmVars>>

\* delete_processed_document, lines 203-206: unlink the saved file
RDeleteUnlink(t) ==
    /\ pc[t] = "call" /\ local[t].op = "delete"
    /\ documents_dir' = documents_dir \ {local[t].doc_id}
    /\ SetPc(t, "delete_read")
    /\ UNCHANGED <<agentVars, record, reg_last, ingested, local, idxVars, ltmVars>>

\* delete_processed_document, lines 208-212: read the list and remove
\* doc_id from it
RDeleteRead(t) ==
    /\ pc[t] = "delete_read"
    /\ SetLocal(t, [local[t] EXCEPT !.ids = RemainingIds(list_all_processed_documents(record),
                                                          local[t].doc_id)])
    /\ SetPc(t, "delete_write")
    /\ UNCHANGED <<agentVars, record, documents_dir, reg_last, ingested, idxVars, ltmVars>>

\* delete_processed_document, lines 213-214: write the list back
RDeleteWrite(t) ==
    /\ pc[t] = "delete_write"
    /\ record' = RewriteRecord(local[t].ids)
    /\ SetPc(t, "done")
    /\ UNCHANGED <<agentVars, documents_dir, reg_last, ingested, local, idxVars, ltmVars>>

\* clear_all_processed_documents, lines 220-224: truncate the record
RClearTruncate(t) ==
    /\ pc[t] = "call" /\ local[t].op = "clear_all"
    /\ record' = clear_all_processed_documents(record, documents_dir, TRUE, {}).record
    /\ SetPc(t, "clear_unlink")
    /\ UNCHANGED <<agentVars, documents_dir, reg_last, ingested, local, idxVars, ltmVars>>

\* clear_all_processed_documents, lines 225-231: unlink the saved files
RClearUnlink(t) ==
    /\ pc[t] = "clear_unlink"
    /\ documents_dir' = {}
    /\ SetPc(t, "done")
    /\ UNCHANGED <<agentVars, record, reg_last, ingested, local, idxVars, ltmVars>>

ConRegNext ==
    \E t \in Threads :
        \/ RRecord(t)
        \/ RDeleteUnlink(t)
        \/ RDeleteRead(t)
        \/ RDeleteWrite(t)
        \/ RClearTruncate(t)
        \/ RClearUnlink(t)

ConcurrentRegistrySpec == ConRegInit /\ [][ConRegNext]_vars

\* the record file after a whole call made on its own
RunCall(rec, call) ==
    IF call.op = "record" THEN record_processed_document(rec, call.doc_id)
    ELSE IF call.op = "delete" THEN delete_processed_document(rec, {}, call.doc_id).record
    ELSE clear_all_processed_documents(rec, {}, TRUE, {}).record

(******************** specification: long-term memory **********************)
\* most entries written to the collection
MaxPersists == 4

\* contents of messages: the empty str, a blank str, two texts, and a list
\* content with one text item
MessageContents ==
    {StrContent(<<>>), StrContent(<<Blank>>), StrContent(<<"hi">>), StrContent(<<"yo">>),
     ListContent(<< <<"hi">> >>)}

\* state.messages as far as the middleware reads it: empty, or its last
\* message
MessageLists ==
    {<<>>} \cup {<<[type |-> ty, content |-> c]>> : ty \in {"human", "ai"}, c \in MessageContents}

\* state.response
Responses == {[content |-> c, tool_calls |-> tc] : c \in MessageContents, tc \in BOOLEAN}

\* entries written so far; datetime.now() of the next write
Written == persisted[<<RoleUser, <<"hi">>>>] + persisted[<<RoleUser, <<"yo">>>>]
           + persisted[<<RoleAssistant, <<"hi">>>>] + persisted[<<RoleAssistant, <<"yo">>>>]

\* the count of a pair after a call that wrote (wrote is true) the text
\* under the role
Counted(role, text, wrote) ==
    IF wrote /\ <<role, text>> \in Pairs
    THEN [persisted EXCEPT ![<<role, text>>] = @ + 1]
    ELSE persisted

LtmInit == IdxIdle /\ RegIdle /\ ConIdle /\ LtmIdle /\ AgentIdle

\* the before_model hook that stores the user's message
SaveUserMessage ==
    \E messages \in MessageLists, addOk \in BOOLEAN :
        LET after == save_user_messages_middleware(chroma_store, messages, Written + 1, addOk)
            text == IF messages = <<>> THEN <<>> ELSE TextOf(messages[1].content)
        IN /\ Written < MaxPersists
           /\ chroma_store' = after
           /\ persisted' = Counted(RoleUser, text, after # chroma_store)
           /\ UNCHANGED <<agentVars, idxVars, regVars, conVars>>

\* the after_model hook that stores the response of the model
SaveAssistantResponse ==
    \E response \in Responses, addOk \in BOOLEAN :
        LET after == save_assistant_response_middleware(chroma_store, response,
                                                        Written + 1, addOk)
        IN /\ Written < MaxPersists
           /\ chroma_store' = after
           /\ persisted' = Counted(RoleAssistant, TextOf(response.content),
                                   after # chroma_store)
           /\ UNCHANGED <<agentVars, idxVars, regVars, conVars>>

LtmNext ==
    \/ SaveUserMessage
    \/ SaveAssistantResponse

MemorySpec == LtmInit /\ [][LtmNext]_vars

(*********************** specification: sanitizer **************************)
\* longest history handed to the sanitizer
MaxHistory == 4

\* the messages of the histories: the prompts of the user, the answer of
\* the model, its request for the tool, and the result of the tool
Prompts == {<<"hi">>, <<"yo">>}
AnswerText == <<"yo">>
ToolText == <<"doc">>
ToolCallMessage == AIMessage(<<"call">>, TRUE)
Messages == {HumanMessage(<<"hi">>), HumanMessage(<<"yo">>), AIMessage(AnswerText, FALSE),
             ToolCallMessage, ToolMessage(ToolText)}

\* a thread starts with the user, and a tool result answers a request
WellFormed(messages) ==
    /\ messages # <<>> => messages[1].type = "human"
    /\ \A i \in 2..Len(messages) :
           messages[i].type = "tool" => IsDanglingToolCall(messages[i - 1])

Histories == {messages \in SeqsUpTo(Messages, MaxHistory) : WellFormed(messages)}

\* the states a hook can be handed: either shape, any history
SanInit ==
    /\ IdxIdle /\ RegIdle /\ ConIdle /\ LtmIdle /\ SessIdle /\ ToolIdle
    /\ checkpoint = <<>>
    /\ runtime_kwargs = <<>>
    /\ turn = NoTurn
    /\ \E messages \in Histories, is_dict \in BOOLEAN :
           agent_state = IF is_dict THEN DictState(messages)
                         ELSE ObjectState(messages, NoResponse)

\* the hook runs once on the state; checkpoint keeps the messages it was
\* handed
Sanitize ==
    /\ turn.pc = "idle"
    /\ checkpoint' = agent_state.messages
    /\ agent_state' = sanitize_dangling_tool_middleware(agent_state)
    /\ turn' = [turn EXCEPT !.pc = "sanitized",
                            !.stage_log = <<"sanitize_dangling_tool_middleware">>]
    /\ UNCHANGED <<toolVars, runtime_kwargs, sessVars, idxVars, regVars, conVars, ltmVars>>

SanNext == Sanitize

SanitizerSpec == SanInit /\ [][SanNext]_vars

(************************* specification: turn *****************************)
\* most turns of a thread, and most model calls of one turn
MaxTurns == 2
MaxModelCalls == 2

\* the build hands the hooks one shape of state
TurnInit ==
    /\ IdxIdle /\ RegIdle /\ ConIdle /\ LtmIdle /\ SessIdle /\ ToolIdle
    /\ checkpoint = <<>>
    /\ runtime_kwargs = <<>>
    /\ turn = NoTurn
    /\ agent_state \in {DictState(<<>>), ObjectState(<<>>, NoResponse)}

\* web_chatbot.py, lines 383-389: agent.stream with the prompt; the run
\* starts from the messages of the thread and a new runtime
StartTurn ==
    \E prompt \in Prompts :
        LET messages == stream_input(checkpoint, prompt)
        IN /\ turn.pc = "idle"
           /\ turn.turns < MaxTurns
           /\ checkpoint' = messages
           /\ agent_state' = [agent_state EXCEPT !.messages = messages,
                                                 !.response = NoResponse]
           /\ runtime_kwargs' = <<>>
           /\ turn' = [NoTurn EXCEPT !.pc = "before_model", !.turns = turn.turns + 1,
                                     !.before = [chroma_store |-> chroma_store,
                                                 checkpoint |-> checkpoint]]
           /\ UNCHANGED <<toolVars, sessVars, idxVars, regVars, conVars, ltmVars>>

\* the hook at the position of the turn
AtHook(name) ==
    /\ turn.pc = "before_model"
    /\ before_model_hooks[turn.stage] = name

\* the turn after the hook returned: the next hook, or the model
AfterHook(t, name) ==
    [t EXCEPT !.stage_log = Append(@, name),
              !.stage = IF @ = Len(before_model_hooks) THEN 1 ELSE @ + 1,
              !.pc = IF t.stage = Len(before_model_hooks) THEN "model" ELSE "before_model"]

RunSanitizer ==
    /\ AtHook("sanitize_dangling_tool_middleware")
    /\ agent_state' = sanitize_dangling_tool_middleware(agent_state)
    /\ turn' = AfterHook(turn, "sanitize_dangling_tool_middleware")
    /\ UNCHANGED <<toolVars, checkpoint, runtime_kwargs, sessVars, idxVars, regVars, conVars, ltmVars>>

RunSummarization ==
    /\ AtHook("SummarizationMiddleware")
    /\ agent_state' = [agent_state EXCEPT !.messages = SummarizationMiddleware(@)]
    /\ turn' = AfterHook(turn, "SummarizationMiddleware")
    /\ UNCHANGED <<toolVars, checkpoint, runtime_kwargs, sessVars, idxVars, regVars, conVars, ltmVars>>

\* the exception of the search leaves the hook and ends the run
RunRetrieval ==
    \E searchOk \in BOOLEAN,
       results \in similarity_search(chroma_store, current_query(agent_state.messages),
                                     HISTORY_K) :
        LET r == retrieve_similar_history_middleware(chroma_store, agent_state,
                                                     runtime_kwargs, results, searchOk)
        IN /\ AtHook("retrieve_similar_history_middleware")
           /\ runtime_kwargs' = r.system
           /\ turn' = IF r.raised
                      THEN [turn EXCEPT !.pc = "idle", !.outcome = "aborted"]
                      ELSE [AfterHook(turn, "retrieve_similar_history_middleware")
                                EXCEPT !.retrieved = r.results]
           /\ UNCHANGED <<toolVars, checkpoint, agent_state, sessVars, idxVars, regVars, conVars, ltmVars>>

RunSaveUser ==
    \E addOk \in BOOLEAN :
        LET messages == getattr_messages(agent_state)
            after == save_user_messages_middleware(chroma_store, messages, Written + 1, addOk)
            text == IF messages = <<>> THEN <<>>
                    ELSE TextOf(messages[Len(messages)].content)
        IN /\ AtHook("save_user_messages_middleware")
           /\ chroma_store' = after
           /\ persisted' = Counted(RoleUser, text, after # chroma_store)
           /\ turn' = [AfterHook(turn, "save_user_messages_middleware")
                           EXCEPT !.persisted_id = IF after # chroma_store
                                                   THEN generate_msg_id(text, RoleUser)
                                                   ELSE @]
           /\ UNCHANGED <<toolVars, checkpoint, agent_state, runtime_kwargs, sessVars, idxVars,
                          regVars, conVars>>

\* the model is handed the messages of the state and the system prompt of
\* the runtime; its response asks for the tool or answers
ModelCall ==
    \E tool_calls \in BOOLEAN :
        LET response == IF tool_calls THEN ToolCallMessage ELSE AIMessage(AnswerText, FALSE)
        IN /\ turn.pc = "model"
           /\ tool_calls => turn.calls + 1 < MaxModelCalls
           /\ agent_state' = [agent_state EXCEPT !.messages = Append(@, response),
                                                 !.response = response]
           /\ checkpoint' = Append(checkpoint, response)
           /\ turn' = [turn EXCEPT !.pc = "after_model", !.calls = @ + 1,
                                   !.handed = [called |-> TRUE,
                                               messages |-> agent_state.messages,
                                               system |-> runtime_kwargs],
                                   !.response = response, !.after_ran = FALSE,
                                   !.stage_log = <<>>]
           /\ UNCHANGED <<toolVars, runtime_kwargs, sessVars, idxVars, regVars, conVars, ltmVars>>

\* the after_model hook; then the tool node, or the end of the run
RunSaveAssistant ==
    \E addOk \in BOOLEAN :
        LET after == save_assistant_response(chroma_store, agent_state, Written + 1, addOk)
        IN /\ turn.pc = "after_model"
           /\ chroma_store' = after
           /\ persisted' = Counted(RoleAssistant, TextOf(turn.response.content),
                                   after # chroma_store)
           /\ turn' = [turn EXCEPT !.after_ran = TRUE,
                                   !.pc = IF turn.response.tool_calls THEN "tools" ELSE "idle",
                                   !.outcome = IF turn.response.tool_calls THEN @
                                               ELSE "completed"]
           /\ UNCHANGED <<toolVars, checkpoint, agent_state, runtime_kwargs, sessVars, idxVars,
                          regVars, conVars>>

\* the tool node appends the result of the retrieval tool
RunTools ==
    /\ turn.pc = "tools"
    /\ agent_state' = [agent_state EXCEPT !.messages = Append(@, ToolMessage(ToolText))]
    /\ checkpoint' = Append(checkpoint, ToolMessage(ToolText))
    /\ turn' = [turn EXCEPT !.pc = "before_model", !.stage = 1]
    /\ UNCHANGED <<toolVars, runtime_kwargs, sessVars, idxVars, regVars, conVars, ltmVars>>

\* the caller abandons the stream, or the run stops on an error: nothing
\* of the turn is undone (web_chatbot.py, lines 458-459)
Cancel ==
    /\ turn.pc \notin {"idle", "sanitized"}
    /\ turn' = [turn EXCEPT !.pc = "idle", !.outcome = "cancelled"]
    /\ UNCHANGED <<toolVars, checkpoint, agent_state, runtime_kwargs, sessVars, idxVars, regVars,
                   conVars, ltmVars>>

TurnNext ==
    \/ StartTurn
    \/ RunSanitizer
    \/ RunSummarization
    \/ RunRetrieval
    \/ RunSaveUser
    \/ ModelCall
    \/ RunSaveAssistant
    \/ RunTools
    \/ Cancel

TurnSpec == TurnInit /\ [][TurnNext]_vars

(*********************** specification: sessions ***************************)
\* most sessions constructed, and most messages of a database
MaxInstances == 3
MaxStored == 2

SessInit == IdxIdle /\ RegIdle /\ ConIdle /\ LtmIdle /\ TurnIdle /\ SessIdle /\ ToolIdle

\* get_conversational_chain(session_id)
GetChain ==
    \E s \in SessionIds :
        LET r == get_conversational_chain(_sessions, short_term_memory, s,
                                          sess_last.instance + 1)
        IN /\ sess_last.instance < MaxInstances
           /\ _sessions' = r.sessions
           /\ short_term_memory' = r.files
           /\ sess_last' = [op |-> "get_conversational_chain", session_id |-> s,
                            created |-> r.created, raised |-> FALSE,
                            had |-> s \in DOMAIN short_term_memory,
                            written |-> IF s \in DOMAIN short_term_memory
                                        THEN short_term_memory[s] ELSE <<>>,
                            instance |-> IF r.created THEN sess_last.instance + 1
                                         ELSE sess_last.instance]
           /\ UNCHANGED <<toolVars, turnVars, idxVars, regVars, conVars, ltmVars>>

\* clear_session(session_id)
ClearSession ==
    \E s \in SessionIds :
        LET r == clear_session(_sessions, s)
        IN /\ _sessions' = r.sessions
           /\ sess_last' = [sess_last EXCEPT !.op = "clear_session", !.session_id = s,
                                             !.created = FALSE, !.raised = r.raised,
                                             !.had = s \in DOMAIN _sessions,
                                             !.written = <<>>]
           /\ UNCHANGED <<toolVars, short_term_memory, turnVars, idxVars, regVars, conVars, ltmVars>>

\* the checkpointer of a session writes a message of its thread: to the
\* database its connection has open, which is the file of the directory
\* unless the file was unlinked
WriteCheckpoint ==
    \E s \in DOMAIN _sessions, msg \in {HumanMessage(<<"hi">>), ToolCallMessage} :
        /\ Len(_sessions[s].history) < MaxStored
        /\ _sessions' = [_sessions EXCEPT ![s].history = Append(@, msg)]
        /\ short_term_memory' =
               IF _sessions[s].linked
               THEN [short_term_memory EXCEPT ![s] = Append(_sessions[s].history, msg)]
               ELSE short_term_memory
        /\ sess_last' = [sess_last EXCEPT !.op = "write", !.session_id = s,
                                          !.created = FALSE, !.raised = FALSE,
                                          !.had = TRUE, !.written = <<>>]
        /\ UNCHANGED <<toolVars, turnVars, idxVars, regVars, conVars, ltmVars>>

\* the process stops and starts again: _sessions is empty, the files stay
RestartProcess ==
    /\ _sessions # NoSessions
    /\ _sessions' = NoSessions
    /\ sess_last' = [sess_last EXCEPT !.op = "restart", !.session_id = "",
                                      !.created = FALSE, !.raised = FALSE,
                                      !.had = FALSE, !.written = <<>>]
    /\ UNCHANGED <<toolVars, short_term_memory, turnVars, idxVars, regVars, conVars, ltmVars>>

SessNext ==
    \/ GetChain
    \/ ClearSession
    \/ WriteCheckpoint
    \/ RestartProcess

SessionSpec == SessInit /\ [][SessNext]_vars

(*********************** specification: citation ***************************)
\* the chain over a fresh knowledge base, and the turns of one session
CitInit ==
    /\ LET r == load_or_create_vector_store([kind |-> "missing", store |-> NoStore])
       IN /\ vector_store = r.store
          /\ disk = r.disk
          /\ last = [NoCall EXCEPT !.op = "load", !.result = "ok", !.found = "missing"]
    /\ RegIdle /\ ConIdle /\ LtmIdle /\ AgentIdle

\* the uploads of the turns: files that load and give one chunk
CitUploads == {file \in Uploads : file.loads /\ file.n = 1 /\ file.name \in DocNames}

\* add_documents of the chain
CitAdd ==
    \E file \in CitUploads :
        LET r == chain_add_documents(vector_store, disk, last, record, documents_dir,
                                     file, 0)
        IN /\ RoomToRecord(record, file.name)
           /\ Len(vector_store.index) + file.n <= MaxVectors
           /\ ChainApply(r)
           /\ ingested' = IF r.reg_last.result = "None"
                          THEN ingested \cup {file.name} ELSE ingested

\* delete_documents of the chain
CitDelete ==
    \E doc_id \in DocNames :
        /\ doc_id \in ingested
        /\ ChainApply(chain_delete_documents(vector_store, disk, record, documents_dir, doc_id))
        /\ ingested' = ingested \ {doc_id}

\* a turn in which the model invokes the retrieval tool once: _run fills
\* the slot, and the references are read from the slot after the stream
ToolTurn ==
    \E query \in Contents \cup {InitText} :
        LET t == RetrievalTool_run(vector_store, query, last_docs)
        IN /\ last_docs' = t.last_docs
           /\ shown' = [invoked |-> TRUE, output |-> t.output,
                        reference_files |-> reference_files(t.last_docs)]
           /\ UNCHANGED <<turnVars, sessVars, idxVars, regVars, conVars, ltmVars>>

\* a turn in which the model answers without the tool: the references are
\* read from the slot all the same
PlainTurn ==
    /\ shown' = [invoked |-> FALSE, output |-> <<>>,
                 reference_files |-> reference_files(last_docs)]
    /\ UNCHANGED <<last_docs, turnVars, sessVars, idxVars, regVars, conVars, ltmVars>>

CitNext ==
    \/ CitAdd
    \/ CitDelete
    \/ ToolTurn
    \/ PlainTurn

CitationSpec == CitInit /\ [][CitNext]_vars

(****************************** claims *************************************)
\* the call recorded in last returned success
Succeeded(call) ==
    \/ call.op \in {"add", "delete", "delete_by_source"} /\ call.result = "True"
    \/ call.op \in {"clear", "save"} /\ call.result = "None"

\* the entry at position p of the mapping is the sentinel
IsSentinel(doc) == doc.page_content = InitText

\* ids of index, mapping or docstore that begin with f"{doc_id}_"
IdsOfSource(store, doc_id) == {id \in KnownIds(store) : StartsWith(id, doc_id \o <<"_">>)}

\* C1 (as stated): after delete_by_source(X) returns, for every source_id
\* X, no id remaining in the id-mapping begins with "X_".
C1_DeletionCompletenessAnySource ==
    last.op = "delete_by_source" => IdsOfSource(vector_store, last.doc_id) = {}

\* C1 (amended): after delete_by_source(X) returns, for every non-empty
\* source_id X, no id remaining in the id-mapping (or the docstore) begins
\* with "X_".
C1_DeletionCompleteness ==
    (last.op = "delete_by_source" /\ last.doc_id # <<>>)
        => IdsOfSource(vector_store, last.doc_id) = {}

\* C1 witness: delete_by_source("a_b") deleted its ids while entries of
\* other sources are still in the index
C1_Witness ==
    /\ last.op = "delete_by_source"
    /\ last.result = "True"
    /\ last.doc_id = FileAB
    /\ Len(vector_store.i2d) >= 2

\* the store that a first-time load_or_create() produces, for some uuid of
\* the sentinel
IsBootstrapped(store) ==
    \E u \in {ToString(t) : t \in 1..(2 * MaxVectors + 2)} : store = FromTexts(<<InitText>>, <<u>>)

Queries == Contents \cup {InitText}

\* C2: clear() leaves the index manager, in memory and on disk, in the
\* bootstrapped sentinel-only state of a first-time load_or_create(), so
\* that a search after clear() gives what it gives on a fresh index.
C2_ClearLeavesBootstrappedState ==
    last.op = "clear" =>
        /\ IsBootstrapped(vector_store)
        /\ disk = SaveLocal(vector_store)
        /\ \A q \in Queries, k \in 0..MaxVectors :
               Len(search(vector_store, q, k).docs)
                   = Len(search(FromTexts(<<InitText>>, <<"1">>), q, k).docs)

\* C3: in every reachable state the index contains at least one sentinel
\* entry.
C3_SentinelInvariant ==
    \E p \in 1..Len(vector_store.i2d) :
        /\ vector_store.i2d[p] \in DocIds(vector_store)
        /\ IsSentinel(vector_store.docstore[vector_store.i2d[p]])

\* a search of the store, for any query and k, returns no hit backed by a
\* document (a hit is the sentinel, or there is none)
NoDocumentHits(store) ==
    \A q \in Queries, k \in 0..(MaxVectors + 1) :
        LET r == search(store, q, k)
        IN \A i \in 1..Len(r.docs) : IsSentinel(r.docs[i])

\* the store holds no entry of a document: no vector, no mapped id and no
\* stored chunk other than the sentinel's
NoRealEntries(store) ==
    /\ \A i \in 1..Len(store.index) : store.index[i] = Embed(InitText)
    /\ \A id \in DocIds(store) : IsSentinel(store.docstore[id])
    /\ Range(store.i2d) \subseteq DocIds(store)

\* C4: after clear() returns the index holds zero real entries and no
\* search returns a document-backed hit; that stays so over every later
\* call until the next add.
C4_ClearInvariant ==
    /\ [](last.op = "clear" => NoRealEntries(vector_store) /\ NoDocumentHits(vector_store))
    /\ [][(NoRealEntries(vector_store) /\ last'.op # "add")
             => (NoRealEntries(vector_store') /\ NoDocumentHits(vector_store'))]_vars

\* C4 witness: a search was made on the index that clear() left
C4_Witness ==
    /\ last.op = "search"
    /\ vector_store.index = <<>>
    /\ disk.store.index = <<>>

\* C5 (as stated): add(chunks, ids) with len(chunks) != len(ids) is
\* rejected with an error and changes neither memory nor disk.
C5_MismatchRaises ==
    [][(last'.op = "add" /\ last'.mismatch)
          => (last'.result = "ValueError" /\ vector_store' = vector_store /\ disk' = disk)]_vars

\* C5 (amended): add(chunks, ids) with len(chunks) != len(ids) changes
\* neither memory nor disk; it raises ValueError when chunks is not empty
\* and returns False when chunks is empty.
C5_MismatchRejected ==
    [][(last'.op = "add" /\ last'.mismatch)
          => /\ last'.result = (IF last'.n_docs = 0 THEN "False" ELSE "ValueError")
             /\ vector_store' = vector_store
             /\ disk' = disk]_vars

\* C5 witness: a call with chunks and a list of ids of another length
\* raised ValueError
C5_Witness ==
    /\ last.op = "add"
    /\ last.mismatch
    /\ last.n_docs = 2
    /\ last.result = "ValueError"

\* C6: whenever add, delete, delete_by_source or clear returns success, the
\* on-disk index equals the in-memory index.
C6_PersistBeforeSuccess ==
    (last.op \in {"add", "delete", "delete_by_source", "clear"} /\ Succeeded(last))
        => disk = [kind |-> "valid", store |-> vector_store]

\* C6 witness: a successful delete left documents in the index
C6_Witness ==
    /\ last.op = "delete"
    /\ last.result = "True"
    /\ Len(vector_store.i2d) >= 2
    /\ disk.store = vector_store

\* C7: a successful add of n chunks in ceil(n / batch_size) batches writes
\* the index once, after the last batch was appended.
C7_PersistOnce ==
    (last.op = "add" /\ last.result = "True")
        => last.saves = <<(last.n_docs + last.batch_size - 1) \div last.batch_size>>

\* C7 witness: a successful add of two chunks in two batches
C7_Witness ==
    /\ last.op = "add"
    /\ last.result = "True"
    /\ last.n_docs = 2
    /\ last.batch_size = 1
    /\ last.saves = <<2>>

IsPrefix(s, t) == Len(s) <= Len(t) /\ SubSeq(t, 1, Len(s)) = s

\* C8: an add that fails at batch j keeps the batches before j in memory
\* and leaves the disk as it was; while no write succeeds the disk stays
\* as it is and memory stays different from it; a successful add, delete,
\* delete_by_source, clear or save makes them equal.
C8_ConsistencyWindow ==
    /\ [][(last'.op = "add" /\ last'.result = "raised")
             => LET kept == Min((last'.failedAt - 1) * last'.batch_size, last'.n_docs)
                IN /\ Len(vector_store'.i2d) = Len(vector_store.i2d) + kept
                   /\ IsPrefix(vector_store.i2d, vector_store'.i2d)
                   /\ Len(vector_store'.index) >= Len(vector_store.index) + kept
                   /\ IsPrefix(vector_store.index, vector_store'.index)
                   /\ Cardinality(DocIds(vector_store')) = Cardinality(DocIds(vector_store)) + kept
                   /\ \A id \in DocIds(vector_store) :
                          /\ id \in DocIds(vector_store')
                          /\ vector_store'.docstore[id] = vector_store.docstore[id]
                   /\ last'.saves = <<>>
                   /\ disk' = disk]_vars
    /\ [][(last'.op # "load" /\ ~Succeeded(last') /\ vector_store # disk.store)
             => (disk' = disk /\ vector_store' # disk'.store)]_vars
    /\ [][Succeeded(last') => disk' = [kind |-> "valid", store |-> vector_store']]_vars

\* C8 witness: an add failed at its second batch and memory holds one
\* entry more than the disk
C8_Witness ==
    /\ last.op = "add"
    /\ last.result = "raised"
    /\ last.failedAt = 2
    /\ Len(vector_store.i2d) = Len(disk.store.i2d) + 1

\* C9: delete_by_source(X) when no id begins with "X_" returns False and
\* changes neither memory nor disk.
C9_NoMatch ==
    [][(last'.op = "delete_by_source" /\ IdsOfSource(vector_store, last'.doc_id) = {})
          => (last'.result = "False" /\ vector_store' = vector_store /\ disk' = disk)]_vars

\* C9 witness: delete_by_source("a_b") found no match in an index that
\* holds entries of other sources
C9_Witness ==
    /\ last.op = "delete_by_source"
    /\ last.result = "False"
    /\ last.doc_id = FileAB
    /\ Len(vector_store.i2d) >= 2
    /\ IdsOfSource(vector_store, FileA) # {}

\* C10: when the index directory is missing, empty or does not load,
\* construction completes with a store of exactly one sentinel and no
\* document, and that store is on disk.
C10_LoadOrCreateFallback ==
    (last.op = "load" /\ last.found \in Unloadable)
        => /\ last.result = "ok"
           /\ Len(vector_store.index) = 1
           /\ Len(vector_store.i2d) = 1
           /\ DocIds(vector_store) = Range(vector_store.i2d)
           /\ IsSentinel(vector_store.docstore[vector_store.i2d[1]])
           /\ vector_store.index[1] = Embed(InitText)
           /\ disk = [kind |-> "valid", store |-> vector_store]

\* C10 witness: the process started on a directory whose index does not
\* load
C10_Witness ==
    /\ last.op = "load"
    /\ last.found = "corrupt"
    /\ disk.kind = "valid"

\* C11: in every state between operations (after load_or_create, add,
\* delete, delete_by_source and clear, also after calls that failed) the
\* id-mapping holds as many ids as the index holds vectors, and every
\* mapped id has exactly one stored chunk.
C11_MappingAgreement ==
    /\ Len(vector_store.i2d) = Len(vector_store.index)
    /\ \A p \in 1..Len(vector_store.i2d) : vector_store.i2d[p] \in DocIds(vector_store)

\* C12: when add, delete, delete_by_source, clear and save are called
\* concurrently, no two threads are inside a writer at the same time, and
\* no search runs while another thread is inside a writer (between its
\* first change of the store and the end of its save).
C12_WriterExclusion ==
    /\ \A t \in Threads, u \in Threads : (t # u /\ Writing(t)) => ~Writing(u)
    /\ \A t \in Threads : local[t].op = "search" => ~local[t].overlapped

\* the store a new manager holds after save() of the store and
\* construction over the same directory
Reloaded(store, dsk) == load_or_create_vector_store(save(store, dsk, "None")).store

\* two stores hold the same ids and chunks and answer every search alike
SameIdsChunksAndHits(s1, s2) ==
    /\ s1.i2d = s2.i2d
    /\ s1.docstore = s2.docstore
    /\ \A q \in Queries, k \in 0..(MaxVectors + 1) : search(s1, q, k) = search(s2, q, k)

C14_IdempotentIngestion ==
    [][(reg_last'.op = "add_documents" /\ reg_last'.doc_id \in ingested)
          => /\ reg_last'.n_chunks = 0
             /\ vector_store' = vector_store
             /\ reg_last'.result = SkipMessage]_vars

\* C15: add_documents of a file whose suffix has no loader ends with an
\* error and writes nothing: the documents directory, the record and the
\* index stay as they are.
C15_UnsupportedRejected ==
    [][(reg_last'.op = "add_documents" /\ Suffix(reg_last'.doc_id) \notin SUPPORTED_LOADERS)
          => /\ reg_last'.result \notin {"None", SkipMessage}
             /\ documents_dir' = documents_dir
             /\ record' = record
             /\ vector_store' = vector_store
             /\ disk' = disk]_vars

\* C16: in every registry state, after record(d) the id d is processed, and
\* a second record(d) does not change that answer.
C16_RecordThenProcessed ==
    [][reg_last'.op = "record"
          => /\ is_document_processed(record', reg_last'.doc_id)
             /\ is_document_processed(record_processed_document(record', reg_last'.doc_id),
                                      reg_last'.doc_id)
                    = is_document_processed(record', reg_last'.doc_id)]_vars

\* C17: in every registry state reachable by record, delete and clear_all
\* (d may have been recorded more than once), after delete(d) the id d is
\* not processed and list_all() does not contain it.
C17_DeleteRemoves ==
    [][reg_last'.op = "delete"
          => /\ ~is_document_processed(record', reg_last'.doc_id)
             /\ \A i \in 1..Len(list_all_processed_documents(record')) :
                    list_all_processed_documents(record')[i] # reg_last'.doc_id]_vars

\* C18: clear_all returns without raising; the record is empty afterwards
\* exactly when its truncation succeeded and is untouched otherwise; the
\* files whose unlink succeeded are gone whether or not the truncation
\* succeeded, and all files are gone when no unlink failed.
C18_ClearAllHalves ==
    [][reg_last'.op = "clear_all"
          => /\ reg_last'.result = "None"
             /\ record' = (IF reg_last'.truncOk THEN [exists |-> TRUE, text |-> <<>>]
                           ELSE record)
             /\ (reg_last'.truncOk => list_all_processed_documents(record') = <<>>)
             /\ documents_dir' = documents_dir \ reg_last'.unlinked
             /\ (reg_last'.unlinked = documents_dir => documents_dir' = {})]_vars

\* C18 witness: a clear_all whose truncation failed has removed the saved
\* files and left the record as it was
C18_Witness ==
    /\ reg_last.op = "clear_all"
    /\ ~reg_last.truncOk
    /\ reg_last.had # {}
    /\ reg_last.unlinked = reg_last.had
    /\ documents_dir = {}
    /\ list_all_processed_documents(record) # <<>>

\* C19: when two callers run record, delete or clear_all concurrently, the
\* record file they leave is what the two calls give when made one after
\* the other, in one of the two orders.
C19_Serialized ==
    (\A t \in Threads : pc[t] = "done")
        => \E t \in Threads, u \in Threads :
               /\ t # u
               /\ record = RunCall(RunCall(local[t].start, local[t]), local[u])

\* the entries of the collection that hold the text under the role
EntriesOf(role, text) ==
    {id \in DOMAIN chroma_store :
        chroma_store[id].page_content = text /\ chroma_store[id].role = role}

\* C20: the id of an entry is determined by its role and content, and a
\* (role, content) pair that was stored N >= 1 times, in any order with the
\* other pairs, has exactly one entry.
C20_Dedup ==
    /\ \A id \in DOMAIN chroma_store :
           id = generate_msg_id(chroma_store[id].page_content, chroma_store[id].role)
    /\ \A p \in Pairs : persisted[p] >= 1 => Cardinality(EntriesOf(p[1], p[2])) = 1

\* C20 witness: the user's "hi" was stored twice, with the assistant's "hi"
\* stored in between or after, and the collection holds two entries
C20_Witness ==
    /\ persisted[<<RoleUser, <<"hi">>>>] >= 2
    /\ persisted[<<RoleAssistant, <<"hi">>>>] >= 1
    /\ Cardinality(EntriesOf(RoleUser, <<"hi">>)) = 1
    /\ Cardinality(DOMAIN chroma_store) = 2

\* a message with unresolved tool calls that a later run of the thread
\* left in the middle of the messages
HasResumedDangling(messages) ==
    \E i \in 1..(Len(messages) - 1) :
        IsDanglingToolCall(messages[i]) /\ messages[i + 1].type = "human"

\* C21: for every history whose last message is an assistant message with
\* unresolved tool calls, the history after the sanitizer is the history
\* without its last message, and it ends in a user message.
C21_SanitizerDropsTrailing ==
    (turn.pc = "sanitized" /\ EndsDangling(checkpoint)) =>
        /\ agent_state.messages = SubSeq(checkpoint, 1, Len(checkpoint) - 1)
        /\ agent_state.messages # <<>>
        /\ agent_state.messages[Len(agent_state.messages)].type = "human"

\* C22: in every run of a thread, also one that resumes the messages a
\* stopped run left, the messages handed to the model never end in an
\* assistant message with unresolved tool calls.
C22_ModelInputInvariant ==
    turn.handed.called => ~EndsDangling(turn.handed.messages)

\* C22 witness: the model was handed the messages of a thread whose
\* earlier run stopped after the model asked for the tool.
C22_Witness ==
    /\ turn.handed.called
    /\ HasResumedDangling(turn.handed.messages)

\* C23: before every model call the sanitizer is the first hook that runs,
\* and no other hook is handed messages that end in a dangling tool call.
C23_SanitizerFirst ==
    turn.stage_log # <<>> =>
        /\ Head(turn.stage_log) = "sanitize_dangling_tool_middleware"
        /\ turn.pc = "before_model" => ~EndsDangling(agent_state.messages)

\* C23 witness: every before_model hook has run, in a thread whose earlier
\* run stopped after the model asked for the tool.
C23_Witness ==
    /\ turn.pc = "model"
    /\ turn.stage_log = before_model_hooks
    /\ HasResumedDangling(checkpoint)

\* C24: no history retrieval of a turn, on any of its model calls, returns
\* the entry that the same turn persisted for its utterance.
C24_NoSelfRetrieval ==
    [][(/\ turn'.stage_log # turn.stage_log
        /\ turn'.stage_log # <<>>
        /\ turn'.stage_log[Len(turn'.stage_log)] = "retrieve_similar_history_middleware")
       => turn.persisted_id \notin turn'.retrieved]_vars

\* C25: the system prompt handed to the model holds at most the history
\* block built for that call: no block of an earlier call is in it, and it
\* does not grow with the number of model calls.
C25_EphemeralAugmentation ==
    turn.handed.called => Len(turn.handed.system) <= 1

\* C26: a response with tool calls is never written to the collection;
\* once the after_model hook has run on a response without tool calls and
\* with text, the collection holds the text under role "assistant" at the
\* id generate_msg_id(content, "assistant").
C26_AssistantPersistence ==
    /\ generate_msg_id(TextOf(ToolCallMessage.content), RoleAssistant)
           \notin DOMAIN chroma_store
    /\ (turn.after_ran /\ ~turn.response.tool_calls
            /\ HasText(TextOf(turn.response.content))) =>
           LET id == generate_msg_id(TextOf(turn.response.content), RoleAssistant)
           IN /\ id \in DOMAIN chroma_store
              /\ chroma_store[id].role = RoleAssistant
              /\ chroma_store[id].page_content = TextOf(turn.response.content)

\* C27: no failure of the long-term memory or of a hook aborts the turn.
C27_BestEffort == turn.outcome # "aborted"

\* C28: clear_session(s) on a cached session completes and removes s from
\* the cache.
C28_ClearSessionRemoves ==
    (sess_last.op = "clear_session" /\ sess_last.had) =>
        /\ ~sess_last.raised
        /\ sess_last.session_id \notin DOMAIN _sessions

\* C29: a session opened after a restart of the process holds the messages
\* as they were last written to its database before the restart.
C29_CheckpointDurability ==
    (sess_last.op = "get_conversational_chain" /\ sess_last.created /\ sess_last.had) =>
        _sessions[sess_last.session_id].history = sess_last.written

\* C30: after a turn that the caller cancelled, the collection and the
\* checkpoint are as they were before the turn.
C30_CancelPersistsNothing ==
    turn.outcome = "cancelled" =>
        /\ chroma_store = turn.before.chroma_store
        /\ checkpoint = turn.before.checkpoint

\* C33: the history retrieval searches the collection only with the text
\* of a user message: when the last message is no user message, or its
\* text is empty, the hook issues no search (so none can fail), finds
\* nothing and leaves the system prompt as it is.
C33_QueryOnlyUserText ==
    [][(/\ turn.pc = "before_model"
        /\ before_model_hooks[turn.stage] = "retrieve_similar_history_middleware"
        /\ turn' # turn
        /\ \/ agent_state.messages[Len(agent_state.messages)].type # "human"
           \/ agent_state.messages[Len(agent_state.messages)].content.text = <<>>)
       => /\ turn'.outcome # "aborted"
          /\ turn'.retrieved = {}
          /\ runtime_kwargs' = runtime_kwargs]_vars

\* the order of the stages the specification gives for one model call
SpecifiedStageOrder ==
    <<"sanitize_dangling_tool_middleware", "retrieve_similar_history_middleware",
      "save_user_messages_middleware", "SummarizationMiddleware">>

\* C34: the hooks before a model call run in the order sanitizer, history
\* retrieval, user-message persistence, summarization.
C34_StageOrder ==
    turn.pc = "model" => turn.stage_log = SpecifiedStageOrder

\* C35: delete_by_source(X) keeps every vector whose chunk has another
\* source than X, also a source whose name begins with "X_".
C35_DeleteBySourceFrame ==
    [][(last'.op = "delete_by_source" /\ vector_store' # vector_store)
       => \A id \in Range(vector_store.i2d) \cap DocIds(vector_store) :
              vector_store.docstore[id].file_name # last'.doc_id
                  => id \in Range(vector_store'.i2d)]_vars

\* C36: in every registry state, record(d) makes d processed and keeps
\* every id processed that was processed before the call.
C36_RecordKeepsMembers ==
    [][reg_last'.op = "record"
       => /\ is_document_processed(record', reg_last'.doc_id)
          /\ \A i \in 1..Len(list_all_processed_documents(record)) :
                 is_document_processed(record', list_all_processed_documents(record)[i])]_vars

\* C37: when the index add of add_documents(F) fails, F is not recorded as
\* processed.
C37_RecordedOnlyIfIndexed ==
    (reg_last.op = "add_documents" /\ reg_last.result = "raised")
        => ~is_document_processed(record, reg_last.doc_id)

\* C38: add_documents(F) returns the skip message only when F was in the
\* registry before the call.
C38_SkipMessageOnlyWhenProcessed ==
    (reg_last.op = "add_documents" /\ reg_last.result = SkipMessage)
        => reg_last.outcome = "skipped"

\* C40: constructing the session of one session_id leaves the database
\* file of every other session_id in the directory with its messages.
C40_SessionIsolation ==
    [][(sess_last'.op = "get_conversational_chain" /\ sess_last'.created)
       => \A o \in DOMAIN short_term_memory \ {sess_last'.session_id} :
              /\ o \in DOMAIN short_term_memory'
              /\ short_term_memory'[o] = short_term_memory[o]]_vars

\* a turn of the session has just ended
TurnShown == shown' # shown \/ last_docs' # last_docs

\* the knowledge base was created with its sentinel and holds, besides the
\* sentinel, the chunks of the one ingested document F
FreshWithOnly(F) ==
    /\ ingested = {F}
    /\ \E id \in DocIds(vector_store) : vector_store.docstore[id] = SentinelDoc
    /\ \E id \in DocIds(vector_store) : vector_store.docstore[id].file_name = F
    /\ \A id \in DocIds(vector_store) :
           vector_store.docstore[id] = SentinelDoc \/ vector_store.docstore[id].file_name = F

\* C31: with a single document F ingested into a fresh knowledge base, a
\* turn that invokes the retrieval tool shows exactly F as its references,
\* and the sentinel is not among the retrieved documents.
C31_CitationCorrectness ==
    [][\A F \in DocNames :
          (TurnShown /\ shown'.invoked /\ FreshWithOnly(F))
              => /\ shown'.reference_files = <<F>>
                 /\ \A i \in 1..Len(last_docs') : last_docs'[i] # SentinelDoc]_vars

\* C32: after the only ingested document F was deleted by the chain, an
\* invocation of the retrieval tool returns no chunk of F and returns the
\* message "No relevant documents found.".
C32_DeletedNotRetrievable ==
    [][(/\ TurnShown /\ shown'.invoked
        /\ reg_last.op = "delete_documents"
        /\ last.op = "delete_by_source" /\ last.result = "True"
        /\ ingested = {})
       => /\ \A i \in 1..Len(last_docs') : last_docs'[i].file_name # reg_last.doc_id
          /\ shown'.output = <<NoRelevantDocuments>>]_vars

\* C39: the references of a turn that invoked the tool are those of the
\* documents that invocation retrieved, and a turn that did not invoke
\* the tool shows no references.
C39_ReferencesOfSameTurn ==
    /\ shown.invoked => shown.reference_files = reference_files(last_docs)
    /\ ~shown.invoked => shown.reference_files = <<>>

====
